---------------------------- MODULE Spec2Model ----------------------------
(***************************************************************************)
(* A model of the constitutional governance kernel of the sovereign        *)
(* monorepo (src/infra/core/daemon): the privileged-operation halt matrix  *)
(* (halt_matrix.py), the hash-chained evidence ledger                      *)
(* (governance_daemon.py, EvidenceLedger), the invariant registry          *)
(* (invariants.py), the orchestrator with its loud-failure handler         *)
(* (governance_daemon.py, GovernanceDaemon and LoudFailureHandler) and the *)
(* H.U.G audit (governance_daemon.py, HUGProtocol; hug_protocol.py).       *)
(*                                                                         *)
(* Each component has its own specification over the shared variables:     *)
(*   SpecMatrix     one caller querying the sealed matrix with every input *)
(*   SpecMatrixConc two callers interleaving queries and _add calls        *)
(*   SpecRemoved    the matrix with one entry deleted, then queried        *)
(*   Spec           the evidence ledger, one caller at a time              *)
(*   SpecTamper     the ledger with one persisted payload edited in place  *)
(*   SpecRegistry   the invariant registry and validate_all                *)
(*   SpecSubset     the invariant registry and validate_subset             *)
(*   SpecRestart    the ledger across restarts of the process              *)
(*   SpecLedgerConc two threads inside append / append_event at once       *)
(*   SpecDaemon     one run of start(): cycles, escalation, emergency halt *)
(*   SpecDaemonSignal  the same with a stop signal arriving at any point   *)
(*   SpecDaemonFault   the same with writes to the ledger file failing     *)
(*   SpecCorrupt    the ledger with its last line cut short, then reopened *)
(*   SpecHug        one H.U.G audit (HUGProtocol and hug_protocol.py)      *)
(*   SpecDisplace   ledger files with a line removed or two lines swapped  *)
(*                                                                         *)
(* SHA-256 is modelled as a collision-free digest: Sha256(x) is the        *)
(* one-element tuple holding the canonical content x, and Python's None    *)
(* (JSON null) in a hash field is the empty tuple.                         *)
(***************************************************************************)
EXTENDS Integers, Sequences, FiniteSets, TLC

VARIABLES
    matrix,           \* HaltMatrix._matrix: (severity, op_class) -> entry
    sealed,           \* HaltMatrix._sealed
    seal_hash,        \* HaltMatrix._seal_hash
    pc,               \* per caller: position inside evaluate_operation
    call,             \* per caller: arguments and locals of the call in flight
    ret,              \* per caller: what the last finished call returned
    ledger_exists,    \* os.path.exists(EvidenceLedger.path)
    ledger_lines,     \* the lines of the ledger file, in file order
    last_hash,        \* EvidenceLedger._last_hash
    now,              \* the wall clock read by datetime.now()
    ledger_ret,       \* what the last finished ledger call returned
    tampered_at,      \* 0, or the line whose payload was edited in place
    opened_on,        \* how many lines the file had when the instance was built
    invariants,       \* InvariantRegistry._invariants, in insertion order
    results_history,  \* InvariantRegistry._results_history
    phase,            \* registry: "startup" (registration) or "runtime"
    val_ret,          \* what the last call on the registry was given and returned
    config,           \* GovernanceDaemon.config (the escalation settings)
    running,          \* GovernanceDaemon.running
    validation_count, \* GovernanceDaemon.validation_count
    consecutive_failures,   \* GovernanceDaemon.consecutive_failures
    failure_count,          \* LoudFailureHandler.failure_count
    critical_failure_count, \* LoudFailureHandler.critical_failure_count
    daemon_pc,        \* where the main thread is inside start / validate_once
    cycle,            \* validate_once's locals: context, results, failures
    pending,          \* per thread: the entry of the append it is inside
    io_faults,        \* how many writes to the ledger file have failed
    signals,          \* how many stop signals have been delivered
    hug_ret,          \* what the last H.U.G audit was given and returned
    audit_file        \* the lines of the file at AuditPath, in file order

matrixVars   == <<matrix, sealed, seal_hash, pc, call, ret>>
ledgerVars   == <<ledger_exists, ledger_lines, last_hash, now, ledger_ret,
                  tampered_at, opened_on>>
registryVars == <<invariants, results_history, phase, val_ret>>
daemonVars   == <<config, running, validation_count, consecutive_failures,
                  failure_count, critical_failure_count, daemon_pc, cycle,
                  pending, io_faults, signals>>
hugVars      == <<hug_ret, audit_file>>
vars         == <<matrixVars, ledgerVars, registryVars, daemonVars, hugVars>>

Range(s) == {s[i] : i \in DOMAIN s}

(***************************************************************************)
(* Digests.                                                                *)
(***************************************************************************)
None == <<>>

Sha256(content) == <<content>>

(***************************************************************************)
(*                       HALT MATRIX (halt_matrix.py)                      *)
(***************************************************************************)
Severity == {"INFO", "WARN", "FAULT", "CRITICAL"}

SeverityOrder == <<"INFO", "WARN", "FAULT", "CRITICAL">>

SeverityValue(sev) ==
    CASE sev = "INFO"     -> "info"
      [] sev = "WARN"     -> "warn"
      [] sev = "FAULT"    -> "fault"
      [] sev = "CRITICAL" -> "critical"

OpClassOrder ==
    << "AUTHORITY_GRANT", "AUTHORITY_REVOKE", "AUTHORITY_EXTEND",
       "CONFIG_MODIFY", "CONFIG_DEPLOY", "CONFIG_ROLLBACK",
       "DATA_EXPORT", "DATA_DELETE", "DATA_MIGRATE",
       "SYSTEM_RESTART", "SYSTEM_UPGRADE", "SYSTEM_SHUTDOWN",
       "SECURITY_OVERRIDE", "SECURITY_DOWNGRADE", "KEY_ROTATION",
       "QUORUM_OVERRIDE", "CHALLENGE_DISMISS", "INVARIANT_SUSPEND" >>

OpClass == Range(OpClassOrder)

OpClassValue(op) ==
    CASE op = "AUTHORITY_GRANT"    -> "authority_grant"
      [] op = "AUTHORITY_REVOKE"   -> "authority_revoke"
      [] op = "AUTHORITY_EXTEND"   -> "authority_extend"
      [] op = "CONFIG_MODIFY"      -> "config_modify"
      [] op = "CONFIG_DEPLOY"      -> "config_deploy"
      [] op = "CONFIG_ROLLBACK"    -> "config_rollback"
      [] op = "DATA_EXPORT"        -> "data_export"
      [] op = "DATA_DELETE"        -> "data_delete"
      [] op = "DATA_MIGRATE"       -> "data_migrate"
      [] op = "SYSTEM_RESTART"     -> "system_restart"
      [] op = "SYSTEM_UPGRADE"     -> "system_upgrade"
      [] op = "SYSTEM_SHUTDOWN"    -> "system_shutdown"
      [] op = "SECURITY_OVERRIDE"  -> "security_override"
      [] op = "SECURITY_DOWNGRADE" -> "security_downgrade"
      [] op = "KEY_ROTATION"       -> "key_rotation"
      [] op = "QUORUM_OVERRIDE"    -> "quorum_override"
      [] op = "CHALLENGE_DISMISS"  -> "challenge_dismiss"
      [] op = "INVARIANT_SUSPEND"  -> "invariant_suspend"

HaltBehavior == {"ALLOW", "WARN_ALLOW", "QUEUE", "HALT", "DENY"}

HaltBehaviorValue(b) ==
    CASE b = "ALLOW"      -> "allow"
      [] b = "WARN_ALLOW" -> "warn_allow"
      [] b = "QUEUE"      -> "queue"
      [] b = "HALT"       -> "halt"
      [] b = "DENY"       -> "deny"

\* HaltMatrixEntry, with the dataclass defaults filled in by the callers below.
HaltMatrixEntry(sev, op, behavior, rq, rc, audit) ==
    [ severity                 |-> sev,
      op_class                 |-> op,
      behavior                 |-> behavior,
      requires_quorum          |-> rq,
      requires_challenge_clear |-> rc,
      audit_level              |-> audit ]

\* HaltMatrixEntry.to_dict: the enum members by their values.
EntryToDict(e) ==
    [ severity                 |-> SeverityValue(e.severity),
      op_class                 |-> OpClassValue(e.op_class),
      behavior                 |-> HaltBehaviorValue(e.behavior),
      requires_quorum          |-> e.requires_quorum,
      requires_challenge_clear |-> e.requires_challenge_clear,
      audit_level              |-> e.audit_level ]

\* The keyword arguments of one _add call of _build_matrix.
AddArgs(behavior, rq, rc, audit) ==
    [ behavior |-> behavior, requires_quorum |-> rq,
      requires_challenge_clear |-> rc, audit_level |-> audit ]

\* _build_matrix, the INFO loop.
InfoRule(op) ==
    IF op \in {"INVARIANT_SUSPEND", "SECURITY_DOWNGRADE"}
    THEN AddArgs("HALT", TRUE, TRUE, "standard")
    ELSE IF op \in {"QUORUM_OVERRIDE", "CHALLENGE_DISMISS"}
    THEN AddArgs("WARN_ALLOW", TRUE, FALSE, "standard")
    ELSE AddArgs("ALLOW", FALSE, FALSE, "standard")

\* A WARN loop that lost its queue branch.
WarnRule_NoQueue(op) ==
    IF op \in {"INVARIANT_SUSPEND", "SECURITY_DOWNGRADE", "SECURITY_OVERRIDE"}
    THEN AddArgs("HALT", TRUE, TRUE, "standard")
    ELSE AddArgs("WARN_ALLOW", FALSE, FALSE, "elevated")

\* _build_matrix, the WARN loop.
WarnRule(op) ==
    IF op \in {"INVARIANT_SUSPEND", "SECURITY_DOWNGRADE", "SECURITY_OVERRIDE"}
    THEN AddArgs("HALT", TRUE, TRUE, "standard")
    ELSE IF op \in {"SYSTEM_UPGRADE", "CONFIG_DEPLOY", "DATA_MIGRATE"}
    THEN AddArgs("QUEUE", FALSE, FALSE, "standard")
    ELSE AddArgs("WARN_ALLOW", FALSE, FALSE, "elevated")

\* _build_matrix, the FAULT loop.
FaultRule(op) ==
    IF op \in {"INVARIANT_SUSPEND", "SECURITY_DOWNGRADE", "SECURITY_OVERRIDE",
               "QUORUM_OVERRIDE"}
    THEN AddArgs("DENY", FALSE, FALSE, "standard")
    ELSE IF op \in {"AUTHORITY_GRANT", "AUTHORITY_EXTEND", "CONFIG_MODIFY",
                    "CONFIG_DEPLOY", "SYSTEM_UPGRADE", "DATA_DELETE",
                    "DATA_MIGRATE"}
    THEN AddArgs("HALT", FALSE, TRUE, "standard")
    ELSE AddArgs("QUEUE", FALSE, FALSE, "elevated")

\* A CRITICAL loop whose halt entries forgot requires_quorum.
CriticalRule_NoQuorum(op) ==
    IF op \in {"AUTHORITY_REVOKE", "CONFIG_ROLLBACK", "SYSTEM_SHUTDOWN"}
    THEN AddArgs("WARN_ALLOW", TRUE, FALSE, "maximum")
    ELSE IF op = "CHALLENGE_DISMISS"
    THEN AddArgs("DENY", FALSE, FALSE, "standard")
    ELSE AddArgs("HALT", FALSE, TRUE, "maximum")

\* _build_matrix, the CRITICAL loop.
CriticalRule(op) ==
    IF op \in {"AUTHORITY_REVOKE", "CONFIG_ROLLBACK", "SYSTEM_SHUTDOWN"}
    THEN AddArgs("WARN_ALLOW", TRUE, FALSE, "maximum")
    ELSE IF op = "CHALLENGE_DISMISS"
    THEN AddArgs("DENY", FALSE, FALSE, "standard")
    ELSE AddArgs("HALT", TRUE, TRUE, "maximum")

RuleFor(sev, op) ==
    CASE sev = "INFO"     -> InfoRule(op)
      [] sev = "WARN"     -> WarnRule(op)
      [] sev = "FAULT"    -> FaultRule(op)
      [] sev = "CRITICAL" -> CriticalRule(op)

\* A key built with its two parts in the other order than decide's.
MatrixKey_Swapped(sev, op) == <<op, sev>>

\* key = (severity, op_class), as _add stores it.
MatrixKey(sev, op) == <<sev, op>>

\* m[key] = entry on a dict: the key is added or its value replaced.
DictPut(m, key, value) == (key :> value) @@ m

\* An _add that does not look at _sealed.
Add_NoSealCheck(m, is_sealed, sev, op, args) ==
    [ raised |-> FALSE,
      matrix |-> DictPut(m, MatrixKey(sev, op),
                         HaltMatrixEntry(sev, op, args.behavior,
                                         args.requires_quorum,
                                         args.requires_challenge_clear,
                                         args.audit_level)) ]

\* HaltMatrix._add: RuntimeError on a sealed matrix, else the entry is stored.
Add(m, is_sealed, sev, op, args) ==
    IF is_sealed
    THEN [raised |-> TRUE, matrix |-> m]
    ELSE [ raised |-> FALSE,
           matrix |-> DictPut(m, MatrixKey(sev, op),
                              HaltMatrixEntry(sev, op, args.behavior,
                                              args.requires_quorum,
                                              args.requires_challenge_clear,
                                              args.audit_level)) ]

\* One `for op in OpClass` loop of _build_matrix: an _add per operation
\* class, in declaration order, on the still unsealed matrix.
RECURSIVE BuildLoop(_, _, _)
BuildLoop(m, sev, i) ==
    IF i > Len(OpClassOrder)
    THEN m
    ELSE BuildLoop(Add(m, FALSE, sev, OpClassOrder[i],
                       RuleFor(sev, OpClassOrder[i])).matrix,
                   sev, i + 1)

\* The matrix after the INFO, WARN and FAULT loops of _build_matrix.
BuiltInfo == BuildLoop(<<>>, "INFO", 1)

BuiltWarn == BuildLoop(BuiltInfo, "WARN", 1)

BuiltFault == BuildLoop(BuiltWarn, "FAULT", 1)

\* HaltMatrix._build_matrix on the empty, unsealed matrix of __init__.
BuildMatrix == BuildLoop(BuiltFault, "CRITICAL", 1)

\* HaltMatrix._seal: the digest of the entries sorted by (severity, op_class);
\* sorting makes the content a function of the set of entries.
SealHash(m) == Sha256({EntryToDict(m[k]) : k \in DOMAIN m})

\* The entry decide builds for a key that is not in the matrix.
FailSecureEntry(sev, op) ==
    HaltMatrixEntry(sev, op, "DENY", TRUE, TRUE, "maximum")

\* A decide whose fallback allows.
Decide_FailOpen(m, sev, op) ==
    IF MatrixKey(sev, op) \notin DOMAIN m
    THEN HaltMatrixEntry(sev, op, "ALLOW", FALSE, FALSE, "standard")
    ELSE m[MatrixKey(sev, op)]

\* HaltMatrix.decide
Decide(m, sev, op) ==
    IF <<sev, op>> \notin DOMAIN m
    THEN FailSecureEntry(sev, op)
    ELSE m[<<sev, op>>]

\* The reason strings of can_proceed, as the words of the f-string.
ReasonDenied(sev, op) ==
    <<"Operation", OpClassValue(op), "denied", "at", "severity", SeverityValue(sev)>>

ReasonQuorum(op) ==
    <<"Operation", OpClassValue(op), "halted:", "quorum", "required">>

ReasonChallenges(op) ==
    <<"Operation", OpClassValue(op), "halted:", "challenges", "must", "be", "cleared">>

ReasonSatisfied(op) ==
    <<"Operation", OpClassValue(op), "allowed", "after", "requirements", "satisfied">>

ReasonQueued(op) ==
    <<"Operation", OpClassValue(op), "queued", "pending", "remediation">>

ReasonAllowed(sev, op) ==
    <<"Operation", OpClassValue(op), "allowed", "at", "severity", SeverityValue(sev)>>

\* A can_proceed without its QUEUE branch: a queued operation falls through.
CanProceed_QueueFallsThrough(m, sev, op, quorum_satisfied, challenges_clear) ==
    LET entry == Decide(m, sev, op) IN
    IF entry.behavior = "DENY"
    THEN <<FALSE, ReasonDenied(sev, op)>>
    ELSE IF entry.behavior = "HALT"
    THEN IF entry.requires_quorum /\ ~quorum_satisfied
         THEN <<FALSE, ReasonQuorum(op)>>
         ELSE IF entry.requires_challenge_clear /\ ~challenges_clear
         THEN <<FALSE, ReasonChallenges(op)>>
         ELSE <<TRUE, ReasonSatisfied(op)>>
    ELSE <<TRUE, ReasonAllowed(sev, op)>>

\* A can_proceed whose HALT branch never looks at challenges_clear.
CanProceed_IgnoresChallenges(m, sev, op, quorum_satisfied, challenges_clear) ==
    LET entry == Decide(m, sev, op) IN
    IF entry.behavior = "DENY"
    THEN <<FALSE, ReasonDenied(sev, op)>>
    ELSE IF entry.behavior = "HALT"
    THEN IF entry.requires_quorum /\ ~quorum_satisfied
         THEN <<FALSE, ReasonQuorum(op)>>
         ELSE <<TRUE, ReasonSatisfied(op)>>
    ELSE IF entry.behavior = "QUEUE"
    THEN <<FALSE, ReasonQueued(op)>>
    ELSE <<TRUE, ReasonAllowed(sev, op)>>

\* A can_proceed whose HALT branch tests the quorum flag the wrong way round.
CanProceed_QuorumInverted(m, sev, op, quorum_satisfied, challenges_clear) ==
    LET entry == Decide(m, sev, op) IN
    IF entry.behavior = "DENY"
    THEN <<FALSE, ReasonDenied(sev, op)>>
    ELSE IF entry.behavior = "HALT"
    THEN IF entry.requires_quorum /\ quorum_satisfied
         THEN <<FALSE, ReasonQuorum(op)>>
         ELSE IF entry.requires_challenge_clear /\ ~challenges_clear
         THEN <<FALSE, ReasonChallenges(op)>>
         ELSE <<TRUE, ReasonSatisfied(op)>>
    ELSE IF entry.behavior = "QUEUE"
    THEN <<FALSE, ReasonQueued(op)>>
    ELSE <<TRUE, ReasonAllowed(sev, op)>>

\* HaltMatrix.can_proceed: (can_proceed, reason)
CanProceed(m, sev, op, quorum_satisfied, challenges_clear) ==
    LET entry == Decide(m, sev, op) IN
    IF entry.behavior = "DENY"
    THEN <<FALSE, ReasonDenied(sev, op)>>
    ELSE IF entry.behavior = "HALT"
    THEN IF entry.requires_quorum /\ ~quorum_satisfied
         THEN <<FALSE, ReasonQuorum(op)>>
         ELSE IF entry.requires_challenge_clear /\ ~challenges_clear
         THEN <<FALSE, ReasonChallenges(op)>>
         ELSE <<TRUE, ReasonSatisfied(op)>>
    ELSE IF entry.behavior = "QUEUE"
    THEN <<FALSE, ReasonQueued(op)>>
    ELSE <<TRUE, ReasonAllowed(sev, op)>>

\* The record evaluate_operation returns, from the entry it read first and the
\* (can_proceed, reason) pair it got second.
DecisionRecord(entry, cp, op, sev, quorum_satisfied, challenges_clear, hash, ts) ==
    [ timestamp    |-> ts,
      op_class     |-> OpClassValue(op),
      severity     |-> SeverityValue(sev),
      behavior     |-> HaltBehaviorValue(entry.behavior),
      decision     |-> IF cp[1] THEN "PROCEED" ELSE "BLOCKED",
      reason       |-> cp[2],
      requirements |-> [ quorum_required           |-> entry.requires_quorum,
                         quorum_satisfied          |-> quorum_satisfied,
                         challenges_clear_required |-> entry.requires_challenge_clear,
                         challenges_clear          |-> challenges_clear ],
      audit_level  |-> entry.audit_level,
      matrix_hash  |-> hash ]


(***************************************************************************)
(* Callers of the matrix.  The daemon loop and an external API caller      *)
(* share the module-level HALT_MATRIX.                                     *)
(***************************************************************************)
Callers == {"daemon", "api"}

\* The operation classes the two-caller and the removed-entry specifications
\* query: one per branch of the CRITICAL loop and the two INFO exceptions.
ProbeOps == {"CONFIG_DEPLOY", "AUTHORITY_REVOKE", "CHALLENGE_DISMISS",
             "SECURITY_DOWNGRADE"}

\* The arguments tried for an _add call made after construction.
AddInputs == { AddArgs("ALLOW", FALSE, FALSE, "standard"),
               AddArgs("DENY", FALSE, FALSE, "standard") }

NoCall == [kind |-> "none"]

NoReturn == [kind |-> "none"]

\* HaltMatrix.__init__: empty matrix, _build_matrix, _seal.
InitMatrix ==
    /\ matrix = BuildMatrix
    /\ sealed = TRUE
    /\ seal_hash = SealHash(BuildMatrix)
    /\ pc = [c \in Callers |-> "idle"]
    /\ call = [c \in Callers |-> NoCall]
    /\ ret = [c \in Callers |-> NoReturn]

\* A caller runs HALT_MATRIX.decide(sev, op).
DecideCall(c, sev, op) ==
    /\ pc[c] = "idle"
    /\ ret' = [ret EXCEPT ![c] =
                 [ kind |-> "decide", severity |-> sev, op_class |-> op,
                   entry |-> Decide(matrix, sev, op) ]]
    /\ pc' = [pc EXCEPT ![c] = "returned"]
    /\ UNCHANGED <<matrix, sealed, seal_hash, call>>
    /\ UNCHANGED <<ledgerVars, registryVars, daemonVars, hugVars>>

\* A caller runs HALT_MATRIX.can_proceed(sev, op, quorum, clear).
CanProceedCall(c, sev, op, quorum_satisfied, challenges_clear) ==
    /\ pc[c] = "idle"
    /\ LET cp == CanProceed(matrix, sev, op, quorum_satisfied, challenges_clear)
       IN  ret' = [ret EXCEPT ![c] =
                     [ kind |-> "can_proceed", severity |-> sev, op_class |-> op,
                       quorum_satisfied |-> quorum_satisfied,
                       challenges_clear |-> challenges_clear,
                       can_proceed |-> cp[1], reason |-> cp[2] ]]
    /\ pc' = [pc EXCEPT ![c] = "returned"]
    /\ UNCHANGED <<matrix, sealed, seal_hash, call>>
    /\ UNCHANGED <<ledgerVars, registryVars, daemonVars, hugVars>>

\* evaluate_operation, first statement: entry = HALT_MATRIX.decide(...).
EvaluateDecide(c, op, sev, quorum_satisfied, challenges_clear) ==
    /\ pc[c] = "idle"
    /\ pc' = [pc EXCEPT ![c] = "evaluate"]
    /\ call' = [call EXCEPT ![c] =
                  [ kind |-> "evaluate_operation", severity |-> sev,
                    op_class |-> op, quorum_satisfied |-> quorum_satisfied,
                    challenges_clear |-> challenges_clear,
                    entry |-> Decide(matrix, sev, op) ]]
    /\ UNCHANGED <<matrix, sealed, seal_hash, ret>>
    /\ UNCHANGED <<ledgerVars, registryVars, daemonVars, hugVars>>

\* evaluate_operation, the rest: HALT_MATRIX.can_proceed(...) and the record.
EvaluateReturn(c) ==
    /\ pc[c] = "evaluate"
    /\ LET a  == call[c]
           cp == CanProceed(matrix, a.severity, a.op_class,
                            a.quorum_satisfied, a.challenges_clear)
       IN  ret' = [ret EXCEPT ![c] =
                     [ kind |-> "evaluate_operation", severity |-> a.severity,
                       op_class |-> a.op_class,
                       quorum_satisfied |-> a.quorum_satisfied,
                       challenges_clear |-> a.challenges_clear,
                       record |-> DecisionRecord(a.entry, cp, a.op_class,
                                                 a.severity, a.quorum_satisfied,
                                                 a.challenges_clear, seal_hash,
                                                 now) ]]
    /\ pc' = [pc EXCEPT ![c] = "returned"]
    /\ call' = [call EXCEPT ![c] = NoCall]
    /\ UNCHANGED <<matrix, sealed, seal_hash>>
    /\ UNCHANGED <<ledgerVars, registryVars, daemonVars, hugVars>>

\* A caller runs HALT_MATRIX._add(sev, op, ...) after construction.
AddCall(c, sev, op, args) ==
    /\ pc[c] = "idle"
    /\ LET r == Add(matrix, sealed, sev, op, args)
       IN  /\ matrix' = r.matrix
           /\ ret' = [ret EXCEPT ![c] =
                        [ kind |-> "add", severity |-> sev, op_class |-> op,
                          raised |-> r.raised ]]
    /\ pc' = [pc EXCEPT ![c] = "returned"]
    /\ UNCHANGED <<sealed, seal_hash, call>>
    /\ UNCHANGED <<ledgerVars, registryVars, daemonVars, hugVars>>

\* The caller takes the value its call returned and goes on.
Resume(c) ==
    /\ pc[c] = "returned"
    /\ pc' = [pc EXCEPT ![c] = "idle"]
    /\ ret' = [ret EXCEPT ![c] = NoReturn]
    /\ UNCHANGED <<matrix, sealed, seal_hash, call>>
    /\ UNCHANGED <<ledgerVars, registryVars, daemonVars, hugVars>>

\* `del HALT_MATRIX._matrix[(sev, op)]`: how a test simulates a missing pair.
\* At most one entry is removed.
RemoveEntry(sev, op) ==
    /\ DOMAIN matrix = DOMAIN BuildMatrix
    /\ \A c \in Callers : pc[c] = "idle"
    /\ matrix' = [k \in DOMAIN matrix \ {<<sev, op>>} |-> matrix[k]]
    /\ UNCHANGED <<sealed, seal_hash, pc, call, ret>>
    /\ UNCHANGED <<ledgerVars, registryVars, daemonVars, hugVars>>

\* The operation classes with a pair missing from the matrix.
MissingOps == {op \in OpClass : \E sev \in Severity : <<sev, op>> \notin DOMAIN matrix}

(***************************************************************************)
(*                    INVARIANT REGISTRY (invariants.py)                   *)
(***************************************************************************)
InvSeverity == {"INFO", "LOW", "MEDIUM", "HIGH", "CRITICAL"}

InvariantStatus == {"PASS", "FAIL", "SKIP", "ERROR"}

\* InvariantResult._compute_hash: the digest of the canonical fields (the
\* code keeps its first 16 hex digits).
ResultHash(id, name, status, severity, reason, ts, evidence) ==
    Sha256([ invariant_id |-> id, name |-> name, status |-> status,
             severity |-> severity, reason |-> reason, timestamp |-> ts,
             evidence |-> evidence ])

\* InvariantResult(...) with __post_init__ filling in hash.
InvariantResult(id, name, status, severity, reason, ts, evidence) ==
    [ invariant_id |-> id, name |-> name, status |-> status,
      severity |-> severity, reason |-> reason, timestamp |-> ts,
      evidence |-> evidence,
      hash |-> ResultHash(id, name, status, severity, reason, ts, evidence) ]

\* InvariantResult.to_dict
ResultToDict(r) ==
    [ invariant_id |-> r.invariant_id, name |-> r.name, status |-> r.status,
      severity |-> r.severity, reason |-> r.reason, timestamp |-> r.timestamp,
      evidence |-> r.evidence, hash |-> r.hash ]

\* An is_failure that takes a skipped invariant for a failed one.
IsFailure_CountsSkip(r) == r.status \in {"FAIL", "ERROR", "SKIP"}

\* InvariantResult.is_failure
IsFailure(r) == r.status \in {"FAIL", "ERROR"}

\* ctx.get(key, default) on the fact map.
CtxGet(ctx, key, default) == IF key \in DOMAIN ctx THEN ctx[key] ELSE default

Returned(r) == [raised |-> FALSE, result |-> r]

Raised(type, message) ==
    [raised |-> TRUE, exception_type |-> type, exception |-> message]

\* validate_human_oversight (INV-002)
ValidateHumanOversight(ctx, ts) ==
    LET oversight_enabled  == CtxGet(ctx, "human_oversight_enabled", FALSE)
        kill_switch_active == CtxGet(ctx, "kill_switch_active", FALSE)
    IN  IF ~oversight_enabled
        THEN Returned(InvariantResult("INV-002", "Human Oversight", "FAIL",
                 "CRITICAL", "Human oversight is disabled", ts,
                 [ oversight_enabled |-> FALSE,
                   kill_switch_active |-> kill_switch_active ]))
        ELSE Returned(InvariantResult("INV-002", "Human Oversight", "PASS",
                 "CRITICAL", "Human oversight is enabled", ts,
                 [ oversight_enabled |-> TRUE,
                   kill_switch_active |-> kill_switch_active ]))

\* validate_deterministic_behavior (INV-004)
ValidateDeterministicBehavior(ctx, ts) ==
    LET current_phase      == CtxGet(ctx, "current_phase", 0)
        deterministic_mode == CtxGet(ctx, "deterministic_mode", TRUE)
    IN  IF current_phase = 0 /\ ~deterministic_mode
        THEN Returned(InvariantResult("INV-004", "Deterministic Behavior",
                 "FAIL", "HIGH", "Phase 0 requires deterministic mode", ts,
                 [ phase |-> current_phase,
                   deterministic_mode |-> deterministic_mode ]))
        ELSE Returned(InvariantResult("INV-004", "Deterministic Behavior",
                 "PASS", "HIGH", "Deterministic behavior requirement satisfied",
                 ts, [ phase |-> current_phase,
                       deterministic_mode |-> deterministic_mode ]))

\* An active-authority grant; expires_at is None, or a string that is an
\* ISO date in the past or the future, a date without a UTC offset, or no date.
Authority(id, expires_at) == [id |-> id, expires_at |-> expires_at]

\* The loop of validate_authority_expiry over active_authorities:
\* datetime.fromisoformat raises ValueError on a string that is no date, and
\* comparing a date without offset with the aware `now` raises TypeError.
RECURSIVE AuthorityScan(_, _, _, _)
AuthorityScan(auths, i, expired, perpetual) ==
    IF i > Len(auths)
    THEN [raised |-> FALSE, expired |-> expired, perpetual |-> perpetual]
    ELSE LET expires_at == auths[i].expires_at IN
         IF expires_at = "None"
         THEN AuthorityScan(auths, i + 1, expired, Append(perpetual, auths[i].id))
         ELSE IF expires_at = "not-a-date"
         THEN Raised("ValueError", "Invalid isoformat string")
         ELSE IF expires_at = "naive-date"
         THEN Raised("TypeError", "can't compare offset-naive and offset-aware datetimes")
         ELSE IF expires_at = "past-date"
         THEN AuthorityScan(auths, i + 1, Append(expired, auths[i].id), perpetual)
         ELSE AuthorityScan(auths, i + 1, expired, perpetual)

\* validate_authority_expiry (INV-006)
ValidateAuthorityExpiry(ctx, ts) ==
    LET active_authorities == CtxGet(ctx, "active_authorities", <<>>)
        scan == AuthorityScan(active_authorities, 1, <<>>, <<>>)
    IN  IF scan.raised
        THEN scan
        ELSE IF scan.perpetual # <<>>
        THEN Returned(InvariantResult("INV-006", "Authority Expiry", "FAIL",
                 "CRITICAL", "Perpetual authorities detected", ts,
                 [perpetual_authorities |-> scan.perpetual]))
        ELSE IF scan.expired # <<>>
        THEN Returned(InvariantResult("INV-006", "Authority Expiry", "FAIL",
                 "HIGH", "Expired authorities still active", ts,
                 [expired_authorities |-> scan.expired]))
        ELSE Returned(InvariantResult("INV-006", "Authority Expiry", "PASS",
                 "CRITICAL", "All authorities have valid expiry", ts,
                 [active_count |-> Len(active_authorities)]))

\* self.validator(context): the validator the invariant was registered with.
RunValidator(validator, ctx, ts) ==
    CASE validator = "validate_human_oversight" ->
             ValidateHumanOversight(ctx, ts)
      [] validator = "validate_deterministic_behavior" ->
             ValidateDeterministicBehavior(ctx, ts)
      [] validator = "validate_authority_expiry" ->
             ValidateAuthorityExpiry(ctx, ts)

\* The Invariant dataclass (description and agi_safety play no part here).
Invariant(id, name, severity, validator, enabled) ==
    [ id |-> id, name |-> name, severity |-> severity,
      validator |-> validator, enabled |-> enabled ]

\* Invariants as create_default_registry defines them, enabled or not.
InvariantPool ==
    { Invariant("INV-002", "Human Oversight", "CRITICAL",
                "validate_human_oversight", e) : e \in BOOLEAN }
    \cup
    { Invariant("INV-004", "Deterministic Behavior", "HIGH",
                "validate_deterministic_behavior", e) : e \in BOOLEAN }
    \cup
    { Invariant("INV-006", "Authority Expiry", "CRITICAL",
                "validate_authority_expiry", e) : e \in BOOLEAN }

\* The result of a disabled invariant.
SkipResult(inv, ts) ==
    InvariantResult(inv.id, inv.name, "SKIP", inv.severity,
                    "Invariant disabled", ts, [enabled |-> FALSE])

\* The result that stands for an exception of the validator.
ErrorResult(inv, exception_type, exception, ts) ==
    InvariantResult(inv.id, inv.name, "ERROR", "CRITICAL",
                    "Validator error: " \o exception, ts,
                    [exception |-> exception, exception_type |-> exception_type])

\* An Invariant.validate without the try/except around the validator.
InvariantValidate_NoCatch(inv, ctx, ts) ==
    IF ~inv.enabled
    THEN Returned(SkipResult(inv, ts))
    ELSE RunValidator(inv.validator, ctx, ts)

\* Invariant.validate
InvariantValidate(inv, ctx, ts) ==
    IF ~inv.enabled
    THEN Returned(SkipResult(inv, ts))
    ELSE LET out == RunValidator(inv.validator, ctx, ts) IN
         IF out.raised
         THEN Returned(ErrorResult(inv, out.exception_type, out.exception, ts))
         ELSE out

\* The loop of InvariantRegistry.validate_all over _invariants.values(): an
\* exception that leaves validate ends the loop and the call.
RECURSIVE ValidateAllFrom(_, _, _, _, _, _)
ValidateAllFrom(invs, ctx, ts, i, results, history) ==
    IF i > Len(invs)
    THEN [raised |-> FALSE, results |-> results, history |-> history]
    ELSE LET out == InvariantValidate(invs[i], ctx, ts) IN
         IF out.raised
         THEN [raised |-> TRUE, results |-> <<>>, history |-> history]
         ELSE ValidateAllFrom(invs, ctx, ts, i + 1,
                              Append(results, out.result),
                              Append(history, out.result))

\* A validate_all that walks the registry from its last invariant to its first.
ValidateAll_Reversed(invs, history, ctx, ts) ==
    ValidateAllFrom([i \in DOMAIN invs |-> invs[Len(invs) + 1 - i]],
                    ctx, ts, 1, <<>>, history)

\* InvariantRegistry.validate_all
ValidateAll(invs, history, ctx, ts) ==
    ValidateAllFrom(invs, ctx, ts, 1, <<>>, history)

\* self._invariants[inv_id]
RegistryGet(invs, id) == invs[CHOOSE i \in DOMAIN invs : invs[i].id = id]

\* A validate_subset that walks the registry and keeps the listed invariants.
ValidateSubset_RegistryOrder(invs, history, invariant_ids, ctx, ts) ==
    ValidateAllFrom(SelectSeq(invs, LAMBDA inv : inv.id \in Range(invariant_ids)),
                    ctx, ts, 1, <<>>, history)

\* InvariantRegistry.validate_subset: the loop over invariant_ids; an id that
\* is not registered is passed over.
ValidateSubset(invs, history, invariant_ids, ctx, ts) ==
    ValidateAllFrom(
        [ k \in DOMAIN SelectSeq(invariant_ids,
                                 LAMBDA id : \E i \in DOMAIN invs : invs[i].id = id) |->
            RegistryGet(invs,
                SelectSeq(invariant_ids,
                          LAMBDA id : \E i \in DOMAIN invs : invs[i].id = id)[k]) ],
        ctx, ts, 1, <<>>, history)

\* InvariantRegistry.get_failures
GetFailures(results) == SelectSeq(results, IsFailure)

\* A has_critical_failure that looks at the severity alone.
HasCriticalFailure_AnySeverity(results) ==
    \E i \in DOMAIN results : results[i].severity = "CRITICAL"

\* InvariantRegistry.has_critical_failure
HasCriticalFailure(results) ==
    \E i \in DOMAIN results :
        IsFailure(results[i]) /\ results[i].severity = "CRITICAL"

\* self._invariants[invariant.id] = invariant on the insertion-ordered dict:
\* a new id goes to the end, a known id keeps its place and gets the new value.
RegistryPut(invs, inv) ==
    IF \E i \in DOMAIN invs : invs[i].id = inv.id
    THEN [i \in DOMAIN invs |-> IF invs[i].id = inv.id THEN inv ELSE invs[i]]
    ELSE Append(invs, inv)

MaxInvariants == 3

MaxHistory == 3

\* A fact map as _build_validation_context lays it out.
FactMap(oversight, deterministic, authorities) ==
    [ human_oversight_enabled |-> oversight, kill_switch_active |-> TRUE,
      current_phase |-> 0, deterministic_mode |-> deterministic,
      active_authorities |-> authorities ]

\* The fact maps validate_all is tried with: the empty map, a healthy one,
\* failing ones, and two on which validate_authority_expiry raises.
Contexts ==
    { <<>>,
      FactMap(TRUE, TRUE, <<Authority("a1", "future-date")>>),
      FactMap(TRUE, FALSE, <<Authority("a1", "past-date")>>),
      FactMap(FALSE, TRUE, <<Authority("a1", "None")>>),
      FactMap(TRUE, TRUE, <<Authority("a1", "not-a-date"), Authority("a2", "None")>>),
      FactMap(TRUE, FALSE, <<Authority("a1", "naive-date")>>) }

\* InvariantRegistry.__init__
InitRegistry ==
    /\ invariants = <<>>
    /\ results_history = <<>>
    /\ phase = "startup"
    /\ val_ret = NoReturn

\* registry.register(invariant), at startup.
Register(inv) ==
    /\ phase = "startup"
    /\ Len(RegistryPut(invariants, inv)) <= MaxInvariants
    /\ invariants' = RegistryPut(invariants, inv)
    /\ UNCHANGED <<results_history, phase, val_ret>>
    /\ UNCHANGED <<matrixVars, ledgerVars, daemonVars, hugVars>>

\* Registration is over: the registry is handed to its consumers.
FinishStartup ==
    /\ phase = "startup"
    /\ phase' = "runtime"
    /\ UNCHANGED <<invariants, results_history, val_ret>>
    /\ UNCHANGED <<matrixVars, ledgerVars, daemonVars, hugVars>>

\* invariant.enabled = flag on a registered invariant, at runtime.
SetEnabled(id, flag) ==
    /\ phase = "runtime"
    /\ \E i \in DOMAIN invariants :
           /\ invariants[i].id = id
           /\ invariants[i].enabled # flag
           /\ invariants' = [invariants EXCEPT ![i].enabled = flag]
    /\ UNCHANGED <<results_history, phase, val_ret>>
    /\ UNCHANGED <<matrixVars, ledgerVars, daemonVars, hugVars>>

\* registry.validate_all(context)
ValidateAllCall(ctx) ==
    /\ phase = "runtime"
    /\ Len(results_history) + Len(invariants) <= MaxHistory
    /\ LET out == ValidateAll(invariants, results_history, ctx, now) IN
           /\ results_history' = out.history
           /\ val_ret' = [ kind |-> "validate_all", registry |-> invariants,
                           context |-> ctx, at |-> now,
                           raised |-> out.raised, results |-> out.results ]
    /\ UNCHANGED <<invariants, phase>>
    /\ UNCHANGED <<matrixVars, ledgerVars, daemonVars, hugVars>>

\* registry.get_failures(results) on the batch validate_all returned.
GetFailuresCall ==
    /\ "results" \in DOMAIN val_ret
    /\ "failures" \notin DOMAIN val_ret
    /\ val_ret' = [ kind |-> "get_failures",
                    failures |-> GetFailures(val_ret.results) ] @@ val_ret
    /\ UNCHANGED <<invariants, results_history, phase>>
    /\ UNCHANGED <<matrixVars, ledgerVars, daemonVars, hugVars>>

\* registry.has_critical_failure(results) on the batch validate_all returned.
HasCriticalFailureCall ==
    /\ "results" \in DOMAIN val_ret
    /\ "critical" \notin DOMAIN val_ret
    /\ val_ret' = [ kind |-> "has_critical_failure",
                    critical |-> HasCriticalFailure(val_ret.results) ] @@ val_ret
    /\ UNCHANGED <<invariants, results_history, phase>>
    /\ UNCHANGED <<matrixVars, ledgerVars, daemonVars, hugVars>>

\* The id lists validate_subset is tried with: ids out of registration
\* order, an id that no invariant has, an id given twice.
SubsetLists ==
    { <<>>,
      <<"INV-006", "INV-999", "INV-002">>,
      <<"INV-999">>,
      <<"INV-004", "INV-004">> }

\* registry.validate_subset(invariant_ids, context)
ValidateSubsetCall(invariant_ids, ctx) ==
    /\ phase = "runtime"
    /\ Len(results_history) + Len(invariant_ids) <= MaxHistory
    /\ LET out == ValidateSubset(invariants, results_history, invariant_ids,
                                 ctx, now) IN
           /\ results_history' = out.history
           /\ val_ret' = [ kind |-> "validate_subset", registry |-> invariants,
                           invariant_ids |-> invariant_ids,
                           context |-> ctx, at |-> now,
                           raised |-> out.raised, results |-> out.results ]
    /\ UNCHANGED <<invariants, phase>>
    /\ UNCHANGED <<matrixVars, ledgerVars, daemonVars, hugVars>>

\* registry.clear_history()
ClearHistory ==
    /\ results_history # <<>>
    /\ results_history' = <<>>
    /\ UNCHANGED <<invariants, phase, val_ret>>
    /\ UNCHANGED <<matrixVars, ledgerVars, daemonVars, hugVars>>

(***************************************************************************)
(*             EVIDENCE LEDGER (governance_daemon.py, EvidenceLedger)      *)
(***************************************************************************)
\* json.dumps(obj) + "\n": one line of text holding the object.
JsonDumps(obj) == [json_of |-> obj]

\* json.loads(line): the object, or JSONDecodeError on a line that holds none.
JsonLoads(line) ==
    IF "json_of" \in DOMAIN line
    THEN [ok |-> TRUE, value |-> line.json_of]
    ELSE [ok |-> FALSE]

\* entry.get(key): None when the key is absent.
EntryGet(entry, key) == IF key \in DOMAIN entry THEN entry[key] ELSE None

\* A _load_last_hash that leaves _last_hash at None.
LoadLastHash_Forget(exists, lines) == None

\* EvidenceLedger._load_last_hash, from _last_hash = None: the entry_hash of
\* the last line, kept at None when the file is missing or empty or the line
\* cannot be parsed.
LoadLastHash(exists, lines) ==
    IF ~exists \/ lines = <<>>
    THEN None
    ELSE LET parsed == JsonLoads(lines[Len(lines)]) IN
         IF parsed.ok THEN EntryGet(parsed.value, "entry_hash") ELSE None

\* A _compute_entry_hash that leaves previous_hash out of the digest.
ComputeEntryHash_OmitsPrev(entry, prev) ==
    Sha256([k \in DOMAIN entry \ {"previous_hash"} |-> entry[k]])

\* EvidenceLedger._compute_entry_hash: the digest of the entry with
\* previous_hash set to _last_hash, in sorted-key encoding.
ComputeEntryHash(entry, prev) ==
    Sha256([entry EXCEPT !.previous_hash = prev])

\* The dict append builds before hashing.
ResultEntry(result, prev, ts) ==
    [ type |-> "INVARIANT_RESULT", timestamp |-> ts, previous_hash |-> prev,
      result |-> ResultToDict(result) ]

\* The dict append_event builds before hashing.
EventEntry(event_type, payload, prev, ts) ==
    [ type |-> event_type, timestamp |-> ts, previous_hash |-> prev,
      payload |-> payload ]

\* entry["entry_hash"] = entry_hash
WithEntryHash(entry, entry_hash) ==
    [k \in DOMAIN entry \cup {"entry_hash"} |->
        IF k = "entry_hash" THEN entry_hash ELSE entry[k]]

\* The ledger as its methods see and leave it.
LedgerState(exists, lines, last) ==
    [exists |-> exists, lines |-> lines, last_hash |-> last]

\* A write of the entry that leaves _last_hash as it was.
WriteEntry_KeepLastHash(led, entry) ==
    LET entry_hash == ComputeEntryHash(entry, led.last_hash) IN
    [ ledger |-> LedgerState(TRUE,
                     Append(led.lines, JsonDumps(WithEntryHash(entry, entry_hash))),
                     led.last_hash),
      hash |-> entry_hash ]

\* The common tail of append and append_event: hash the entry, write it as
\* one line at the end of the file, set _last_hash, return the hash.
WriteEntry(led, entry) ==
    LET entry_hash == ComputeEntryHash(entry, led.last_hash) IN
    [ ledger |-> LedgerState(TRUE,
                     Append(led.lines, JsonDumps(WithEntryHash(entry, entry_hash))),
                     entry_hash),
      hash |-> entry_hash ]

\* EvidenceLedger.append
LedgerAppend(led, result, ts) ==
    WriteEntry(led, ResultEntry(result, led.last_hash, ts))

\* EvidenceLedger.append_event
LedgerAppendEvent(led, event_type, payload, ts) ==
    WriteEntry(led, EventEntry(event_type, payload, led.last_hash, ts))

\* EvidenceLedger.append_batch: [self.append(r) for r in results]; the i-th
\* append reads the clock at times[i].
RECURSIVE LedgerAppendBatchFrom(_, _, _, _, _)
LedgerAppendBatchFrom(led, results, times, i, hashes) ==
    IF i > Len(results)
    THEN [ledger |-> led, hashes |-> hashes]
    ELSE LET w == LedgerAppend(led, results[i], times[i]) IN
         LedgerAppendBatchFrom(w.ledger, results, times, i + 1,
                               Append(hashes, w.hash))

\* An append_batch that appends the results last to first.
LedgerAppendBatch_Reversed(led, results, times) ==
    LedgerAppendBatchFrom(led,
        [i \in DOMAIN results |-> results[Len(results) + 1 - i]], times, 1, <<>>)

LedgerAppendBatch(led, results, times) ==
    LedgerAppendBatchFrom(led, results, times, 1, <<>>)

\* The loop of verify_chain over the lines of the file; line_num is the line
\* the error is logged for, 0 when there is none.
RECURSIVE VerifyFrom(_, _, _)
VerifyFrom(lines, i, prev_hash) ==
    IF i > Len(lines)
    THEN [valid |-> TRUE, line_num |-> 0]
    ELSE LET parsed == JsonLoads(lines[i]) IN
         IF ~parsed.ok
         THEN [valid |-> FALSE, line_num |-> i]
         ELSE IF EntryGet(parsed.value, "previous_hash") # prev_hash
         THEN [valid |-> FALSE, line_num |-> i]
         ELSE VerifyFrom(lines, i + 1, EntryGet(parsed.value, "entry_hash"))

\* EvidenceLedger.verify_chain
VerifyChain(exists, lines) ==
    IF ~exists
    THEN [valid |-> TRUE, line_num |-> 0]
    ELSE VerifyFrom(lines, 1, None)

MaxLedger == 3

MaxBatch == 2

MaxClock == 1

\* The results append and append_batch are tried with.
SampleResults(ts) ==
    { ValidateHumanOversight([human_oversight_enabled |-> h], ts).result :
        h \in BOOLEAN }

\* The (type, payload) pairs append_event is tried with.
SampleEvents ==
    { <<"DAEMON_START", [mode |-> "test"]>>,
      <<"HUG_STEP_U", [passed |-> FALSE]>> }

\* The clock readings of k successive appends that start at time t.
ClockReadings(t, k) ==
    {ts \in [1..k -> t..MaxClock] : \A i \in 1..(k - 1) : ts[i] <= ts[i + 1]}

\* A ledger file an earlier run left behind: nothing, or one entry.
PriorLedgers ==
    { <<>>,
      LedgerAppendEvent(LedgerState(FALSE, <<>>, None), "DAEMON_STOP",
                        [validation_count |-> 0], 0).ledger.lines }

\* EvidenceLedger.__init__ on the file an earlier run left.
InitLedgerOn(exists, lines) ==
    /\ ledger_exists = exists
    /\ ledger_lines = lines
    /\ last_hash = LoadLastHash(exists, lines)
    /\ now = 0
    /\ ledger_ret = NoReturn
    /\ tampered_at = 0
    /\ opened_on = Len(lines)

\* EvidenceLedger.__init__ on a missing, an empty or a one-entry file.
InitLedger ==
    \E exists \in BOOLEAN, lines \in PriorLedgers :
        /\ exists \/ lines = <<>>
        /\ InitLedgerOn(exists, lines)

Ledger == LedgerState(ledger_exists, ledger_lines, last_hash)

\* Time passes.
Tick ==
    /\ now < MaxClock
    /\ now' = now + 1
    /\ UNCHANGED <<ledger_exists, ledger_lines, last_hash, ledger_ret, tampered_at, opened_on>>
    /\ UNCHANGED <<matrixVars, registryVars, daemonVars, hugVars>>

\* A caller runs ledger.append(result).
AppendCall(result) ==
    /\ Len(ledger_lines) < MaxLedger
    /\ LET w == LedgerAppend(Ledger, result, now) IN
           /\ ledger_exists' = w.ledger.exists
           /\ ledger_lines' = w.ledger.lines
           /\ last_hash' = w.ledger.last_hash
           /\ ledger_ret' = [ kind |-> "append", hashes |-> <<w.hash>>,
                             given |-> <<ResultToDict(result)>> ]
    /\ UNCHANGED <<now, tampered_at, opened_on>>
    /\ UNCHANGED <<matrixVars, registryVars, daemonVars, hugVars>>

\* A caller runs ledger.append_event(event_type, payload).
AppendEventCall(event_type, payload) ==
    /\ Len(ledger_lines) < MaxLedger
    /\ LET w == LedgerAppendEvent(Ledger, event_type, payload, now) IN
           /\ ledger_exists' = w.ledger.exists
           /\ ledger_lines' = w.ledger.lines
           /\ last_hash' = w.ledger.last_hash
           /\ ledger_ret' = [ kind |-> "append_event", hashes |-> <<w.hash>>,
                             given |-> <<payload>> ]
    /\ UNCHANGED <<now, tampered_at, opened_on>>
    /\ UNCHANGED <<matrixVars, registryVars, daemonVars, hugVars>>

\* A caller runs ledger.append_batch(results); the clock may advance between
\* the appends.
AppendBatchCall(results, times) ==
    /\ Len(ledger_lines) + Len(results) <= MaxLedger
    /\ LET w == LedgerAppendBatch(Ledger, results, times) IN
           /\ ledger_exists' = w.ledger.exists
           /\ ledger_lines' = w.ledger.lines
           /\ last_hash' = w.ledger.last_hash
           /\ ledger_ret' = [ kind |-> "append_batch", hashes |-> w.hashes,
                             given |-> [i \in DOMAIN results |->
                                           ResultToDict(results[i])] ]
    /\ now' = IF times = <<>> THEN now ELSE times[Len(times)]
    /\ UNCHANGED <<tampered_at, opened_on>>
    /\ UNCHANGED <<matrixVars, registryVars, daemonVars, hugVars>>

\* A verify_chain that cuts a broken ledger back to its valid prefix.
VerifyChainCall_Repairs ==
    LET v == VerifyChain(ledger_exists, ledger_lines) IN
    /\ ledger_ret' = [kind |-> "verify_chain"] @@ v
    /\ ledger_lines' = IF v.valid THEN ledger_lines
                       ELSE SubSeq(ledger_lines, 1, v.line_num - 1)
    /\ UNCHANGED <<ledger_exists, last_hash, now, tampered_at, opened_on>>
    /\ UNCHANGED <<matrixVars, registryVars, daemonVars, hugVars>>

\* A caller runs ledger.verify_chain().
VerifyChainCall ==
    /\ ledger_ret' = [kind |-> "verify_chain"] @@ VerifyChain(ledger_exists, ledger_lines)
    /\ UNCHANGED <<ledger_exists, ledger_lines, last_hash, now, tampered_at, opened_on>>
    /\ UNCHANGED <<matrixVars, registryVars, daemonVars, hugVars>>

\* The process restarts: a new EvidenceLedger is built on the file as it is.
Restart ==
    /\ last_hash' = LoadLastHash(ledger_exists, ledger_lines)
    /\ opened_on' = Len(ledger_lines)
    /\ ledger_ret' = [kind |-> "init", raised |-> FALSE]
    /\ UNCHANGED <<ledger_exists, ledger_lines, now, tampered_at>>
    /\ UNCHANGED <<matrixVars, registryVars, daemonVars, hugVars>>

\* A line that holds no JSON object: what a crash in the middle of a write
\* leaves at the end of the file.
TornLine == [torn |-> TRUE]

\* The last line of the file is cut short.  It happens at most once.
TearTail ==
    /\ tampered_at = 0
    /\ ledger_lines # <<>>
    /\ ledger_lines' = [ledger_lines EXCEPT ![Len(ledger_lines)] = TornLine]
    /\ tampered_at' = Len(ledger_lines)
    /\ ledger_ret' = NoReturn
    /\ UNCHANGED <<ledger_exists, last_hash, now, opened_on>>
    /\ UNCHANGED <<matrixVars, registryVars, daemonVars, hugVars>>

\* The payload of a persisted entry with one value changed.
TamperedEntry(entry) ==
    IF "result" \in DOMAIN entry
    THEN [entry EXCEPT !.result.status = IF @ = "PASS" THEN "FAIL" ELSE "PASS"]
    ELSE [entry EXCEPT !.payload = [edited |-> TRUE]]

\* Someone edits the payload of line i of the file in place and leaves its
\* entry_hash as it was.  It happens at most once.
Tamper(i) ==
    /\ tampered_at = 0
    /\ i \in DOMAIN ledger_lines
    /\ ledger_lines' = [ledger_lines EXCEPT
                          ![i] = JsonDumps(TamperedEntry(JsonLoads(@).value))]
    /\ tampered_at' = i
    /\ ledger_ret' = NoReturn
    /\ UNCHANGED <<ledger_exists, last_hash, now, opened_on>>
    /\ UNCHANGED <<matrixVars, registryVars, daemonVars, hugVars>>


(***************************************************************************)
(*   LEDGER APPENDS STEP BY STEP (governance_daemon.py, EvidenceLedger)    *)
(*                                                                         *)
(* append and append_event hold no lock.  Between reading _last_hash,      *)
(* writing the line and assigning _last_hash another thread, or a signal   *)
(* handler of the same thread, can run; the steps below are those three    *)
(* points of one call.                                                     *)
(***************************************************************************)
Threads == {"daemon", "audit"}

\* No append in flight.
NoEntry == [built |-> FALSE]

\* An item handed to the ledger: a result for append, or a type and payload
\* for append_event.
ResultItem(result) == [method |-> "append", result |-> result]

EventItem(event_type, payload) ==
    [method |-> "append_event", event_type |-> event_type, payload |-> payload]

\* The entry as append / append_event build it, entry_hash included, from
\* the _last_hash and the clock they read.
BuiltEntry(item, prev, ts) ==
    LET entry == IF item.method = "append"
                 THEN ResultEntry(item.result, prev, ts)
                 ELSE EventEntry(item.event_type, item.payload, prev, ts)
    IN  WithEntryHash(entry, ComputeEntryHash(entry, prev))

\* The call has built its entry and not yet opened the file.
InFlight(entry) == [built |-> TRUE, written |-> FALSE, entry |-> entry]

\* Thread t enters append / append_event and builds the entry.
AppendBuild(t, item) ==
    /\ ~pending[t].built
    /\ pending' = [pending EXCEPT ![t] = InFlight(BuiltEntry(item, last_hash, now))]
    /\ UNCHANGED <<ledger_exists, ledger_lines, last_hash>>

\* with open(self.path, 'a') as f: f.write(json.dumps(entry) + "\n")
AppendWrite(t) ==
    /\ pending[t].built
    /\ ~pending[t].written
    /\ ledger_exists' = TRUE
    /\ ledger_lines' = Append(ledger_lines, JsonDumps(pending[t].entry))
    /\ pending' = [pending EXCEPT ![t].written = TRUE]
    /\ UNCHANGED last_hash

\* self._last_hash = entry_hash; return entry_hash
AppendCommit(t) ==
    /\ pending[t].built
    /\ pending[t].written
    /\ last_hash' = pending[t].entry.entry_hash
    /\ pending' = [pending EXCEPT ![t] = NoEntry]
    /\ UNCHANGED <<ledger_exists, ledger_lines>>

\* A failing append that assigns _last_hash all the same.
AppendRaise_AssignsLastHash(t) ==
    /\ pending[t].built
    /\ ~pending[t].written
    /\ last_hash' = pending[t].entry.entry_hash
    /\ pending' = [pending EXCEPT ![t] = NoEntry]
    /\ UNCHANGED <<ledger_exists, ledger_lines>>

\* open() or write() raises: nothing reaches the file, _last_hash is not
\* assigned, the exception leaves the call.
AppendRaise(t) ==
    /\ pending[t].built
    /\ ~pending[t].written
    /\ pending' = [pending EXCEPT ![t] = NoEntry]
    /\ UNCHANGED <<ledger_exists, ledger_lines, last_hash>>

\* What the daemon's variables are while only the ledger's own callers run.
daemonState == <<config, running, validation_count, consecutive_failures,
                 failure_count, critical_failure_count, daemon_pc, cycle,
                 io_faults, signals>>

\* A thread other than the daemon's loop calls ledger.append or append_event.
ThreadBuild(t, item) ==
    /\ Len(ledger_lines) + Cardinality({u \in Threads : pending[u].built}) < MaxLedger
    /\ AppendBuild(t, item)
    /\ UNCHANGED <<now, ledger_ret, tampered_at, opened_on>>
    /\ UNCHANGED <<matrixVars, registryVars, daemonState, hugVars>>

ThreadWrite(t) ==
    /\ AppendWrite(t)
    /\ UNCHANGED <<now, ledger_ret, tampered_at, opened_on>>
    /\ UNCHANGED <<matrixVars, registryVars, daemonState, hugVars>>

ThreadCommit(t) ==
    /\ AppendCommit(t)
    /\ ledger_ret' = [kind |-> "append", hashes |-> <<last_hash'>>]
    /\ UNCHANGED <<now, tampered_at, opened_on>>
    /\ UNCHANGED <<matrixVars, registryVars, daemonState, hugVars>>

(***************************************************************************)
(*      GOVERNANCE ORCHESTRATOR (governance_daemon.py, GovernanceDaemon)   *)
(*                                                                         *)
(* The main thread runs start(): the DAEMON_START event, then the loop of  *)
(* validate_once and sleep, then stop() in the finally clause.  daemon_pc  *)
(* is its position: at names the statement, i the index inside a loop over *)
(* failures or results, exc the exception that is unwinding, if any.       *)
(***************************************************************************)
MaxCycles == 3

MaxIOFaults == 1

MaxSignals == 1

\* GovernanceDaemonConfig, the settings validate_once reads.
Config(halt_on_critical, max_failures_before_halt) ==
    [ halt_on_critical |-> halt_on_critical,
      max_failures_before_halt |-> max_failures_before_halt ]

\* The dataclass defaults.
DefaultConfig == Config(TRUE, 3)

\* The settings the orchestrator is run with: the defaults among them.
Configs == {Config(h, n) : h \in BOOLEAN, n \in {1, 2, 3}}

\* Registries as create_default_registry leaves them: every invariant
\* enabled, or the last one disabled by the operator.
DaemonRegistries ==
    { << Invariant("INV-002", "Human Oversight", "CRITICAL",
                   "validate_human_oversight", TRUE),
         Invariant("INV-004", "Deterministic Behavior", "HIGH",
                   "validate_deterministic_behavior", TRUE),
         Invariant("INV-006", "Authority Expiry", "CRITICAL",
                   "validate_authority_expiry", e) >> : e \in BOOLEAN }

\* The fact maps a cycle can find: a healthy system, one with a
\* high-severity failure only, one with a critical failure, and one on which
\* a validator raises.
DaemonContexts ==
    { FactMap(TRUE, TRUE, <<Authority("a1", "future-date")>>),
      FactMap(TRUE, FALSE, <<Authority("a1", "future-date")>>),
      FactMap(FALSE, TRUE, <<Authority("a1", "future-date")>>),
      FactMap(TRUE, TRUE, <<Authority("a1", "not-a-date")>>) }

PcAt(at, i, exc) == [at |-> at, i |-> i, exc |-> exc]

\* validate_once's locals before the first cycle.
NoCycle == [context |-> <<>>, results |-> <<>>, failures |-> <<>>]

\* LoudFailureHandler.get_stats
GetStats ==
    [ total_failures |-> failure_count,
      critical_failures |-> critical_failure_count ]

\* The payload of the DAEMON_START event.
StartPayload ==
    [ mode |-> "production",
      invariants |-> [i \in DOMAIN invariants |-> invariants[i].id],
      pid |-> 1 ]

\* The payload of the EMERGENCY_HALT event.
HaltPayload ==
    [ reason |-> "Critical invariant failure",
      failures |-> [i \in DOMAIN cycle.failures |-> ResultToDict(cycle.failures[i])],
      validation_count |-> validation_count ]

\* The payload of the DAEMON_STOP event.
StopPayload ==
    [ validation_count |-> validation_count, failure_stats |-> GetStats ]

\* What the main thread hands to the ledger at its position.
CurrentItem ==
    CASE daemon_pc.at = "start"  -> EventItem("DAEMON_START", StartPayload)
      [] daemon_pc.at = "handle" -> ResultItem(cycle.failures[daemon_pc.i])
      [] daemon_pc.at = "halt"   -> EventItem("EMERGENCY_HALT", HaltPayload)
      [] daemon_pc.at = "batch"  -> ResultItem(cycle.results[daemon_pc.i])
      [] daemon_pc.at \in {"halt_stop", "finally"} ->
             EventItem("DAEMON_STOP", StopPayload)

\* How start() ends once the finally clause is done.
Ended(exc) ==
    CASE exc = "none"       -> PcAt("returned", 0, exc)
      [] exc = "SystemExit" -> PcAt("exited", 1, exc)
      [] OTHER              -> PcAt("raised", 0, exc)

\* Where the main thread goes when the statement it is at has returned.
Following(p) ==
    CASE p.at = "start" -> PcAt("loop", 0, "none")
      [] p.at = "handle" ->
             IF p.i < Len(cycle.failures)
             THEN PcAt("handle", p.i + 1, "none")
             ELSE PcAt("escalate", 0, "none")
      [] p.at = "halt" -> PcAt("halt_stop", 0, "none")
      [] p.at = "halt_stop" -> PcAt("finally", 0, "SystemExit")
      [] p.at = "batch" ->
             IF p.i < Len(cycle.results)
             THEN PcAt("batch", p.i + 1, "none")
             ELSE PcAt("sleep", 0, "none")
      [] p.at = "finally" -> Ended(p.exc)

\* Where an IOError raised at the statement takes the main thread: out of
\* start() when raised before the try or inside the finally clause, to the
\* finally clause otherwise.
Unwinding(p) ==
    IF p.at \in {"start", "finally"}
    THEN PcAt("raised", 0, "IOError")
    ELSE PcAt("finally", 0, "IOError")

\* append_batch(results) of validate_once, or what follows it when there
\* is no result.
ToBatch(results) ==
    IF results = <<>> THEN PcAt("sleep", 0, "none") ELSE PcAt("batch", 1, "none")

\* GovernanceDaemon.__init__ and LoudFailureHandler.__init__
InitDaemon(cfg) ==
    /\ config = cfg
    /\ running = FALSE
    /\ validation_count = 0
    /\ consecutive_failures = 0
    /\ failure_count = 0
    /\ critical_failure_count = 0
    /\ daemon_pc = PcAt("created", 0, "none")
    /\ cycle = NoCycle
    /\ pending = [t \in Threads |-> NoEntry]
    /\ io_faults = 0
    /\ signals = 0
    /\ hug_ret = NoReturn
    /\ audit_file = <<>>

\* create_default_registry() as GovernanceDaemon.__init__ calls it.
InitDaemonRegistry(registry) ==
    /\ invariants = registry
    /\ results_history = <<>>
    /\ phase = "runtime"
    /\ val_ret = NoReturn

\* What no step of the orchestrator writes.
daemonFrame == <<matrixVars, ledger_ret, tampered_at, opened_on, invariants,
                 phase, val_ret, config, hug_ret, audit_file>>

\* start(), up to the DAEMON_START event: self.running = True.
Start ==
    /\ daemon_pc.at = "created"
    /\ running' = TRUE
    /\ daemon_pc' = PcAt("start", 0, "none")
    /\ UNCHANGED <<validation_count, consecutive_failures, failure_count,
                   critical_failure_count, cycle, pending, io_faults, signals>>
    /\ UNCHANGED <<ledger_exists, ledger_lines, last_hash, now, results_history>>
    /\ UNCHANGED daemonFrame

\* A validate_once that runs _emergency_halt on critical failures only.
AfterFailures_NoThreshold(results) ==
    IF HasCriticalFailure(results) /\ config.halt_on_critical
    THEN PcAt("halt", 0, "none")
    ELSE ToBatch(results)

\* validate_once after the loop over failures: _emergency_halt on a critical
\* failure when halt_on_critical is set, or when consecutive_failures has
\* reached max_failures_before_halt; append_batch otherwise.
AfterFailures(results) ==
    IF HasCriticalFailure(results) /\ config.halt_on_critical
    THEN PcAt("halt", 0, "none")
    ELSE IF consecutive_failures >= config.max_failures_before_halt
    THEN PcAt("halt", 0, "none")
    ELSE ToBatch(results)

\* while self.running: validate_once(), up to the handling of the failures:
\* count the cycle, validate every invariant against the context, count a
\* failing cycle or reset the count.
ValidateOnce(ctx) ==
    /\ daemon_pc.at = "loop"
    /\ running
    /\ validation_count < MaxCycles
    /\ validation_count' = validation_count + 1
    /\ LET out == ValidateAll(invariants, results_history, ctx, now)
           failures == GetFailures(out.results)
       IN  /\ results_history' = out.history
           /\ cycle' = [ context |-> ctx, results |-> out.results,
                         failures |-> failures ]
           /\ IF out.raised
              THEN /\ daemon_pc' = PcAt("finally", 0, "Exception")
                   /\ UNCHANGED consecutive_failures
              ELSE IF failures # <<>>
              THEN /\ consecutive_failures' = consecutive_failures + 1
                   /\ daemon_pc' = PcAt("handle", 1, "none")
              ELSE /\ consecutive_failures' = 0
                   /\ daemon_pc' = ToBatch(out.results)
    /\ UNCHANGED <<running, failure_count, critical_failure_count, pending,
                   io_faults, signals>>
    /\ UNCHANGED <<ledger_exists, ledger_lines, last_hash, now>>
    /\ UNCHANGED daemonFrame

\* while self.running is false: the loop ends and the finally clause runs.
LoopExit ==
    /\ daemon_pc.at = "loop"
    /\ ~running
    /\ daemon_pc' = PcAt("finally", 0, "none")
    /\ UNCHANGED <<running, validation_count, consecutive_failures,
                   failure_count, critical_failure_count, cycle, pending,
                   io_faults, signals>>
    /\ UNCHANGED <<ledger_exists, ledger_lines, last_hash, now, results_history>>
    /\ UNCHANGED daemonFrame

\* A handle_failure that leaves critical_failure_count alone.
CountFailure_NoCritical(result) ==
    /\ failure_count' = failure_count + 1
    /\ critical_failure_count' = critical_failure_count

\* LoudFailureHandler.handle_failure, the counters.
CountFailure(result) ==
    /\ failure_count' = failure_count + 1
    /\ critical_failure_count' =
           IF result.severity = "CRITICAL"
           THEN critical_failure_count + 1
           ELSE critical_failure_count

\* handle_failure(failure) for the next failure of the cycle: count it, then
\* enter ledger.append(result).
HandleFailure ==
    /\ daemon_pc.at = "handle"
    /\ CountFailure(cycle.failures[daemon_pc.i])
    /\ AppendBuild("daemon", CurrentItem)
    /\ UNCHANGED <<running, validation_count, consecutive_failures, daemon_pc,
                   cycle, io_faults, signals>>
    /\ UNCHANGED <<now, results_history>>
    /\ UNCHANGED daemonFrame

\* The checks of validate_once that follow the loop over the failures.
Escalate ==
    /\ daemon_pc.at = "escalate"
    /\ daemon_pc' = AfterFailures(cycle.results)
    /\ UNCHANGED <<running, validation_count, consecutive_failures,
                   failure_count, critical_failure_count, cycle, pending,
                   io_faults, signals>>
    /\ UNCHANGED <<ledger_exists, ledger_lines, last_hash, now, results_history>>
    /\ UNCHANGED daemonFrame

\* The main thread enters append_event (DAEMON_START, EMERGENCY_HALT) or the
\* next append of append_batch.
BeginAppend ==
    /\ daemon_pc.at \in {"start", "halt", "batch"}
    /\ AppendBuild("daemon", CurrentItem)
    /\ UNCHANGED <<running, validation_count, consecutive_failures,
                   failure_count, critical_failure_count, daemon_pc, cycle,
                   io_faults, signals>>
    /\ UNCHANGED <<now, results_history>>
    /\ UNCHANGED daemonFrame

\* stop(), called by _emergency_halt and by the finally clause of start, at
\* its first statement: it returns at once when the daemon is not running.
Stop ==
    /\ daemon_pc.at \in {"halt_stop", "finally"}
    /\ daemon_pc.i = 0
    /\ ~pending["daemon"].built
    /\ daemon_pc' = IF ~running THEN Following(daemon_pc)
                    ELSE [daemon_pc EXCEPT !.i = 1]
    /\ UNCHANGED <<running, validation_count, consecutive_failures,
                   failure_count, critical_failure_count, cycle, pending,
                   io_faults, signals>>
    /\ UNCHANGED <<ledger_exists, ledger_lines, last_hash, now, results_history>>
    /\ UNCHANGED daemonFrame

\* stop() past its first statement: it clears running and enters
\* append_event(DAEMON_STOP).
StopEvent ==
    /\ daemon_pc.at \in {"halt_stop", "finally"}
    /\ daemon_pc.i = 1
    /\ ~pending["daemon"].built
    /\ running' = FALSE
    /\ AppendBuild("daemon", CurrentItem)
    /\ UNCHANGED <<validation_count, consecutive_failures, failure_count,
                   critical_failure_count, daemon_pc, cycle, io_faults, signals>>
    /\ UNCHANGED <<now, results_history>>
    /\ UNCHANGED daemonFrame

\* The append the main thread is inside writes its line.
WriteLine ==
    /\ AppendWrite("daemon")
    /\ UNCHANGED <<running, validation_count, consecutive_failures,
                   failure_count, critical_failure_count, daemon_pc, cycle,
                   io_faults, signals>>
    /\ UNCHANGED <<now, results_history>>
    /\ UNCHANGED daemonFrame

\* An orchestrator that logs the IOError of an append and goes on.
WriteFailed_Swallowed(p) == Following(p)

\* The IOError of an append leaves validate_once and start: nothing catches it.
WriteFailed(p) == Unwinding(p)

\* The append the main thread is inside fails at open() or write().
WriteFails ==
    /\ io_faults < MaxIOFaults
    /\ AppendRaise("daemon")
    /\ io_faults' = io_faults + 1
    /\ daemon_pc' = WriteFailed(daemon_pc)
    /\ UNCHANGED <<running, validation_count, consecutive_failures,
                   failure_count, critical_failure_count, cycle, signals>>
    /\ UNCHANGED <<now, results_history>>
    /\ UNCHANGED daemonFrame

\* The append the main thread is inside assigns _last_hash and returns.
Commit ==
    /\ AppendCommit("daemon")
    /\ daemon_pc' = Following(daemon_pc)
    /\ UNCHANGED <<running, validation_count, consecutive_failures,
                   failure_count, critical_failure_count, cycle, io_faults,
                   signals>>
    /\ UNCHANGED <<now, results_history>>
    /\ UNCHANGED daemonFrame

\* time.sleep(validation_interval_sec): the clock moves on.
Sleep ==
    /\ daemon_pc.at = "sleep"
    /\ now' = now + 1
    /\ daemon_pc' = PcAt("loop", 0, "none")
    /\ UNCHANGED <<running, validation_count, consecutive_failures,
                   failure_count, critical_failure_count, cycle, pending,
                   io_faults, signals>>
    /\ UNCHANGED <<ledger_exists, ledger_lines, last_hash, results_history>>
    /\ UNCHANGED daemonFrame

\* SIGTERM or SIGINT: _handle_sigterm / _handle_sigint run stop() in the main
\* thread, between two of its steps, from the first statement to the last.
Signal ==
    /\ signals < MaxSignals
    /\ daemon_pc.at \notin {"returned", "exited", "raised"}
    /\ signals' = signals + 1
    /\ IF ~running
       THEN UNCHANGED <<running, ledger_exists, ledger_lines, last_hash>>
       ELSE LET w == LedgerAppendEvent(Ledger, "DAEMON_STOP", StopPayload, now) IN
            /\ running' = FALSE
            /\ ledger_exists' = w.ledger.exists
            /\ ledger_lines' = w.ledger.lines
            /\ last_hash' = w.ledger.last_hash
    /\ UNCHANGED <<validation_count, consecutive_failures, failure_count,
                   critical_failure_count, daemon_pc, cycle, pending, io_faults>>
    /\ UNCHANGED <<now, results_history>>
    /\ UNCHANGED daemonFrame

(***************************************************************************)
(* Specifications of the halt matrix.                                      *)
(***************************************************************************)
InitMatrixSpec ==
    InitMatrix /\ InitLedgerOn(FALSE, <<>>) /\ InitRegistry /\ InitDaemon(DefaultConfig)

NextMatrix ==
    \/ \E sev \in Severity, op \in OpClass : DecideCall("api", sev, op)
    \/ \E sev \in Severity, op \in OpClass, q \in BOOLEAN, cc \in BOOLEAN :
           CanProceedCall("api", sev, op, q, cc)
    \/ \E sev \in Severity, op \in OpClass, q \in BOOLEAN, cc \in BOOLEAN :
           EvaluateDecide("api", op, sev, q, cc)
    \/ EvaluateReturn("api")
    \/ Resume("api")

SpecMatrix == InitMatrixSpec /\ [][NextMatrix]_vars

NextMatrixConc ==
    \/ \E c \in Callers, sev \in Severity, op \in ProbeOps : DecideCall(c, sev, op)
    \/ \E c \in Callers, sev \in Severity, op \in ProbeOps,
          q \in BOOLEAN, cc \in BOOLEAN : CanProceedCall(c, sev, op, q, cc)
    \/ \E c \in Callers, sev \in Severity, op \in ProbeOps,
          q \in BOOLEAN, cc \in BOOLEAN : EvaluateDecide(c, op, sev, q, cc)
    \/ \E c \in Callers : EvaluateReturn(c)
    \/ \E c \in Callers, sev \in Severity, op \in ProbeOps, args \in AddInputs :
           AddCall(c, sev, op, args)
    \/ \E c \in Callers : Resume(c)

SpecMatrixConc == InitMatrixSpec /\ [][NextMatrixConc]_vars

NextRemoved ==
    \/ \E sev \in Severity, op \in OpClass : RemoveEntry(sev, op)
    \/ \E sev \in Severity, op \in ProbeOps \cup MissingOps : DecideCall("api", sev, op)
    \/ \E sev \in Severity, op \in ProbeOps \cup MissingOps,
          q \in BOOLEAN, cc \in BOOLEAN : CanProceedCall("api", sev, op, q, cc)
    \/ \E sev \in Severity, op \in ProbeOps \cup MissingOps,
          q \in BOOLEAN, cc \in BOOLEAN : EvaluateDecide("api", op, sev, q, cc)
    \/ EvaluateReturn("api")
    \/ Resume("api")

SpecRemoved == InitMatrixSpec /\ [][NextRemoved]_vars

(***************************************************************************)
(* Specifications of the evidence ledger.                                  *)
(***************************************************************************)
NextLedger ==
    \/ Tick
    \/ \E r \in SampleResults(now) : AppendCall(r)
    \/ \E e \in SampleEvents : AppendEventCall(e[1], e[2])
    \/ \E k \in 0..MaxBatch :
          \E times \in ClockReadings(now, k) :
             \E results \in [1..k -> UNION {SampleResults(t) : t \in 0..MaxClock}] :
                /\ \A i \in 1..k : results[i].timestamp <= times[i]
                /\ AppendBatchCall(results, times)
    \/ VerifyChainCall

InitLedgerSpec ==
    InitMatrix /\ InitLedger /\ InitRegistry /\ InitDaemon(DefaultConfig)

Spec == InitLedgerSpec /\ [][NextLedger]_vars

NextTamper ==
    \/ NextLedger
    \/ \E i \in 1..MaxLedger : Tamper(i)

SpecTamper == InitLedgerSpec /\ [][NextTamper]_vars

(***************************************************************************)
(* Specification of the invariant registry.                                *)
(***************************************************************************)
NextRegistry ==
    \/ \E inv \in InvariantPool : Register(inv)
    \/ FinishStartup
    \/ \E inv \in InvariantPool, flag \in BOOLEAN : SetEnabled(inv.id, flag)
    \/ \E ctx \in Contexts : ValidateAllCall(ctx)
    \/ GetFailuresCall
    \/ HasCriticalFailureCall
    \/ ClearHistory

InitRegistrySpec ==
    InitMatrix /\ InitLedgerOn(FALSE, <<>>) /\ InitRegistry /\ InitDaemon(DefaultConfig)

SpecRegistry == InitRegistrySpec /\ [][NextRegistry]_vars

\* The registry queried by validate_subset.
NextSubset ==
    \/ \E inv \in InvariantPool : Register(inv)
    \/ FinishStartup
    \/ \E invariant_ids \in SubsetLists, ctx \in Contexts :
           ValidateSubsetCall(invariant_ids, ctx)

SpecSubset == InitRegistrySpec /\ [][NextSubset]_vars

(***************************************************************************)
(* Specifications of the orchestrator.                                     *)
(***************************************************************************)
\* The steps of the main thread when nothing goes wrong.
NextDaemonOn(contexts) ==
    \/ Start
    \/ \E ctx \in contexts : ValidateOnce(ctx)
    \/ HandleFailure
    \/ Escalate
    \/ BeginAppend
    \/ Stop
    \/ StopEvent
    \/ WriteLine
    \/ Commit
    \/ Sleep

InitDaemonSpec ==
    /\ InitMatrix
    /\ InitLedgerOn(FALSE, <<>>)
    /\ \E registry \in DaemonRegistries : InitDaemonRegistry(registry)
    /\ \E cfg \in Configs : InitDaemon(cfg)

\* One run of start() with no stop signal and no I/O error.
NextDaemon == NextDaemonOn(DaemonContexts)

SpecDaemon == InitDaemonSpec /\ [][NextDaemon]_vars

\* One run of start() in which a stop signal can arrive at any point.
NextDaemonSignal ==
    \/ NextDaemonOn(DaemonContexts)
    \/ LoopExit
    \/ Signal

SpecDaemonSignal == InitDaemonSpec /\ [][NextDaemonSignal]_vars

\* One run of start() in which a write to the ledger file can fail.
NextDaemonFault ==
    \/ NextDaemonOn(DaemonContexts)
    \/ WriteFails

SpecDaemonFault == InitDaemonSpec /\ [][NextDaemonFault]_vars

\* The ledger across restarts of the process.
NextRestart ==
    \/ \E r \in SampleResults(now) : AppendCall(r)
    \/ \E e \in SampleEvents : AppendEventCall(e[1], e[2])
    \/ VerifyChainCall
    \/ Restart

SpecRestart == InitLedgerSpec /\ [][NextRestart]_vars

\* The ledger with a damaged last line, across restarts.
NextCorrupt ==
    \/ \E e \in SampleEvents : AppendEventCall(e[1], e[2])
    \/ VerifyChainCall
    \/ TearTail
    \/ Restart

SpecCorrupt == InitLedgerSpec /\ [][NextCorrupt]_vars

\* Two threads appending to one ledger instance.
NextLedgerConc ==
    \/ \E t \in Threads, r \in SampleResults(now) : ThreadBuild(t, ResultItem(r))
    \/ \E t \in Threads, e \in SampleEvents : ThreadBuild(t, EventItem(e[1], e[2]))
    \/ \E t \in Threads : ThreadWrite(t)
    \/ \E t \in Threads : ThreadCommit(t)
    \/ VerifyChainCall

SpecLedgerConc == InitLedgerSpec /\ [][NextLedgerConc]_vars

(***************************************************************************)
(*   H.U.G PROTOCOL (governance_daemon.py, HUGProtocol; hug_protocol.py)   *)
(*                                                                         *)
(* A text (a file path, a commit message) is a sequence of fragments; a    *)
(* pattern is a text too, and `pattern in text` holds when the fragments   *)
(* of the pattern are consecutive fragments of the text.                   *)
(***************************************************************************)
\* str.lower() on one fragment.
LowerFragment(f) ==
    CASE f = "INVARIANT" -> "invariant"
      [] f = "Governance" -> "governance"
      [] f = "APPROVED"  -> "approved"
      [] f = "Approved"  -> "approved"
      [] OTHER           -> f

\* str.lower()
Lower(text) == [i \in DOMAIN text |-> LowerFragment(text[i])]

\* pattern in text
Contains(pattern, text) ==
    \E i \in 1..(Len(text) - Len(pattern) + 1) :
        SubSeq(text, i, i + Len(pattern) - 1) = pattern

\* len() of one fragment, in characters.
FragmentLen(f) ==
    CASE f = "<200 characters of prose>" -> 200
      [] f = "fix typo"   -> 8
      [] f = "["          -> 1
      [] f = "]"          -> 1
      [] f = "human-"     -> 6
      [] f = "not "       -> 4
      [] f = " yet"       -> 4
      [] f = "-by:"       -> 4
      [] f = " alice"     -> 6
      [] OTHER            -> 8

\* text[:n], for a cut that falls between two fragments.
RECURSIVE Truncate(_, _)
Truncate(text, n) ==
    IF text = <<>> \/ FragmentLen(Head(text)) > n
    THEN <<>>
    ELSE <<Head(text)>> \o Truncate(Tail(text), n - FragmentLen(Head(text)))

\* seq[:n]
FirstN(seq, n) == SubSeq(seq, 1, IF Len(seq) < n THEN Len(seq) ELSE n)

\* The HUGResult dataclass.
HUGResult(step, passed, evidence, ts) ==
    [step |-> step, passed |-> passed, evidence |-> evidence, timestamp |-> ts]

\* HUGResult.to_dict (hug_protocol.py)
HugToDict(r) ==
    [ step |-> r.step, passed |-> r.passed, evidence |-> r.evidence,
      timestamp |-> r.timestamp ]

\* The keywords HUGProtocol.run_audit looks for in a changed file.
SensitiveKeywords == { <<"invariant">>, <<"governance">>, <<"constitution">> }

\* CRITICAL_PATTERNS (hug_protocol.py)
CRITICAL_PATTERNS ==
    << <<"invariant">>, <<"governance">>, <<"constitution">>, <<"daemon">>,
       <<"authority">>, <<"security">>, <<"credential">>, <<"secret">>,
       <<".env">>, <<"kill_switch">>, <<"halt">> >>

\* HUGProtocol.run_audit, needs_human
NeedsHuman(changed_files) ==
    \E i \in DOMAIN changed_files :
        \E keyword \in SensitiveKeywords :
            Contains(keyword, Lower(changed_files[i]))

\* HUGProtocol.run_audit, human_approved
HumanApproved(commit_msg, needs_human) ==
    \/ Contains(<<"approved">>, Lower(commit_msg))
    \/ Contains(<<"[", "human-", "approved", "]">>, Lower(commit_msg))
    \/ ~needs_human

\* any(p in f.lower() for p in CRITICAL_PATTERNS)
MatchesCritical(file_path) ==
    \E k \in DOMAIN CRITICAL_PATTERNS :
        Contains(CRITICAL_PATTERNS[k], Lower(file_path))

\* needs_human_review (hug_protocol.py)
needs_human_review(changed_files) ==
    \E i \in DOMAIN changed_files : MatchesCritical(changed_files[i])

\* is_human_approved (hug_protocol.py)
is_human_approved(commit_msg) ==
    LET msg_lower == Lower(commit_msg) IN
    \/ Contains(<<"[", "human-", "approved", "]">>, msg_lower)
    \/ Contains(<<"[", "approved", "]">>, msg_lower)
    \/ Contains(<<"approved", "-by:">>, msg_lower)
    \/ Contains(<<"acked", "-by:">>, msg_lower)

\* self.ledger.path / config.ledger_path
LedgerPath == "governance_ledger.jsonl"

\* A file of its own that the --ledger option of hug_protocol.py can name.
AuditPath == "audit_ledger.jsonl"

\* The H step of HUGProtocol.run_audit.
StepH(changed_files, commit_msg, ts) ==
    LET needs_human    == NeedsHuman(changed_files)
        human_approved == HumanApproved(commit_msg, needs_human)
    IN  HUGResult("H", human_approved,
            [ changed_files |-> changed_files, commit_msg |-> commit_msg,
              needs_human_review |-> needs_human,
              human_approved |-> human_approved ], ts)

\* HUGProtocol.run_audit, all_passed
AllPassed(invariant_results) ==
    \A i \in DOMAIN invariant_results : invariant_results[i].status = "PASS"

\* The U step of HUGProtocol.run_audit.
StepU(invariant_results, ts) ==
    LET failed   == GetFailures(invariant_results)
        failures == [i \in DOMAIN failed |-> ResultToDict(failed[i])]
    IN  HUGResult("U", AllPassed(invariant_results),
            [ total_invariants |-> Len(invariant_results),
              passed |-> Cardinality({i \in DOMAIN invariant_results :
                             invariant_results[i].status = "PASS"}),
              failed |-> Len(failures),
              failures |-> FirstN(failures, 5) ], ts)

\* The G step of HUGProtocol.run_audit: results holds H and U when its
\* evidence is built.
StepG(results, ts) ==
    HUGResult("G", TRUE,
        [ audit_complete |-> TRUE, results_count |-> Len(results),
          ledger_path |-> LedgerPath ], ts)

\* The loop of HUGProtocol.run_audit that logs the steps to the ledger.
RECURSIVE LogSteps(_, _, _, _)
LogSteps(led, results, i, ts) ==
    IF i > Len(results)
    THEN led
    ELSE CHOOSE logged \in
             { LogSteps(next, results, i + 1, ts) :
                 next \in { LedgerAppendEvent(led, "HUG_STEP_" \o results[i].step,
                              [ passed |-> results[i].passed,
                                evidence |-> results[i].evidence,
                                timestamp |-> results[i].timestamp ], ts).ledger } } :
             TRUE

\* HUGProtocol.run_audit
RunAudit(led, changed_files, commit_msg, invariant_results, ts) ==
    CHOOSE audit \in
        { [ results |-> <<h, u, StepG(<<h, u>>, ts)>>,
            ledger  |-> LogSteps(led, <<h, u, StepG(<<h, u>>, ts)>>, 1, ts) ] :
            h \in {StepH(changed_files, commit_msg, ts)},
            u \in {StepU(invariant_results, ts)} } :
        TRUE

\* An is_audit_passed that is satisfied by one passing step.
IsAuditPassed_Any(results) == \E i \in DOMAIN results : results[i].passed

\* HUGProtocol.is_audit_passed, and all(r.passed for r in results) in
\* hug_protocol.py
IsAuditPassed(results) == \A i \in DOMAIN results : results[i].passed

\* The loop of validate_once over the failures: handle_failure appends each
\* of them to the ledger.
RECURSIVE HandleAll(_, _, _, _)
HandleAll(led, failures, i, ts) ==
    IF i > Len(failures)
    THEN led
    ELSE CHOOSE handled \in
             { HandleAll(next, failures, i + 1, ts) :
                 next \in {LedgerAppend(led, failures[i], ts).ledger} } :
             TRUE

\* validate_once() from the loop over the failures on: handle_failure for
\* each, then _emergency_halt (EMERGENCY_HALT, stop() on a daemon that is not
\* running, sys.exit(1)) or append_batch.
ValidateOnceOn(led, cfg, out, failures, ts) ==
    LET halt == /\ failures # <<>>
                /\ \/ HasCriticalFailure(out.results) /\ cfg.halt_on_critical
                   \/ consecutive_failures + 1 >= cfg.max_failures_before_halt
    IN  CHOOSE v \in
            { [ exited   |-> halt,
                results  |-> out.results,
                failures |-> failures,
                history  |-> out.history,
                ledger   |->
                    IF halt
                    THEN LedgerAppendEvent(handled, "EMERGENCY_HALT",
                             [ reason |-> "Critical invariant failure",
                               failures |-> [i \in DOMAIN failures |->
                                                ResultToDict(failures[i])],
                               validation_count |-> validation_count + 1 ],
                             ts).ledger
                    ELSE LedgerAppendBatch(handled, out.results,
                             [i \in DOMAIN out.results |-> ts]).ledger ] :
                handled \in {HandleAll(led, failures, 1, ts)} } :
            TRUE

\* validate_once() on a daemon that was constructed and not started, as
\* run_hug_audit and run_invariant_tests call it: exited tells that
\* _emergency_halt has ended the process with sys.exit(1).
ValidateOnceRun(led, cfg, ctx, ts) ==
    CHOOSE v \in
        { ValidateOnceOn(led, cfg, out, failures, ts) :
            out \in {ValidateAll(invariants, results_history, ctx, ts)},
            failures \in {GetFailures(ValidateAll(invariants, results_history,
                                                  ctx, ts).results)} } :
        TRUE

\* What validate_once leaves in the daemon and the registry.
AfterValidateOnce(v, ctx, status) ==
    /\ validation_count' = validation_count + 1
    /\ consecutive_failures' =
           IF v.failures # <<>> THEN consecutive_failures + 1 ELSE 0
    /\ failure_count' = failure_count + Len(v.failures)
    /\ critical_failure_count' = critical_failure_count +
           Cardinality({i \in DOMAIN v.failures : v.failures[i].severity = "CRITICAL"})
    /\ results_history' = v.history
    /\ cycle' = [context |-> ctx, results |-> v.results, failures |-> v.failures]
    /\ daemon_pc' = PcAt("exited", status, "SystemExit")

\* The change sets an audit is tried with.
ChangeSets ==
    { <<>>,
      << <<"README.md">> >>,
      << <<"README.md">>, <<"src/", "INVARIANT", "S.py">> >>,
      << <<"infra/", "daemon", "/run.py">> >> }

\* The commit messages an audit is tried with.
CommitMessages ==
    { <<"fix typo">>,
      <<"[", "human-", "approved", "]", "fix typo">>,
      <<"not ", "approved", " yet">>,
      <<"Approved", "-by:", " alice">>,
      <<"<200 characters of prose>", "[", "APPROVED", "]">> }

\* main() of governance_daemon.py with --hug: GovernanceDaemon.run_hug_audit
\* (validate_once, then HUGProtocol.run_audit and is_audit_passed) and
\* sys.exit(0 if passed else 1).  fault_at is 0, or the number of the
\* append_event of run_audit that raises IOError: nothing catches it, and the
\* process ends with status 1.
RunHugAudit(changed_files, commit_msg, ctx, fault_at) ==
    /\ daemon_pc.at = "created"
    /\ hug_ret = NoReturn
    /\ fault_at > 0 => io_faults < MaxIOFaults
    /\ \E v \in {ValidateOnceRun(Ledger, config, ctx, now)} :
       \E a \in {RunAudit(v.ledger, changed_files, commit_msg, v.results, now)} :
       LET raised == fault_at > 0
           passed == IsAuditPassed(a.results)
           status == IF v.exited \/ raised \/ ~passed THEN 1 ELSE 0
           led == IF v.exited THEN v.ledger
                  ELSE IF raised
                  THEN LogSteps(v.ledger, FirstN(a.results, fault_at - 1), 1, now)
                  ELSE a.ledger
       IN  /\ v.exited => ~raised
           /\ AfterValidateOnce(v, ctx, status)
           /\ ledger_exists' = led.exists
           /\ ledger_lines' = led.lines
           /\ last_hash' = led.last_hash
           /\ io_faults' = IF raised THEN io_faults + 1 ELSE io_faults
           /\ hug_ret' =
                  [ kind |-> "run_hug_audit",
                    changed_files |-> changed_files, commit_msg |-> commit_msg,
                    invariant_results |-> v.results,
                    halted |-> v.exited,
                    raised |-> raised,
                    ledger_error |-> raised,
                    results |-> IF v.exited \/ raised THEN <<>> ELSE a.results,
                    exit_status |-> status ]
    /\ UNCHANGED <<running, pending, signals, audit_file>>
    /\ UNCHANGED <<now, ledger_ret, tampered_at, opened_on>>
    /\ UNCHANGED <<matrixVars, invariants, phase, val_ret, config>>

\* run_invariant_tests (hug_protocol.py): the import of governance_daemon
\* succeeds in this repository, so the pytest fallback is not taken.
RunInvariantTests(v) ==
    [ passed   |-> Len(v.failures) = 0,
      evidence |-> [ total |-> Len(v.results),
                     passed |-> Len(v.results) - Len(v.failures),
                     failed |-> Len(v.failures),
                     failures |-> [i \in DOMAIN FirstN(v.failures, 5) |->
                                      ResultToDict(v.failures[i])] ] ]

\* The H step of run_hug_audit (hug_protocol.py).
StandaloneStepH(changed_files, commit_msg, ts) ==
    LET requires_human == needs_human_review(changed_files)
        human_approved == is_human_approved(commit_msg)
    IN  HUGResult("H", ~requires_human \/ human_approved,
            [ changed_files |-> changed_files,
              commit_msg |-> Truncate(commit_msg, 200),
              requires_human_review |-> requires_human,
              human_approved |-> human_approved,
              critical_patterns_matched |->
                  SelectSeq(changed_files, MatchesCritical) ], ts)

\* The lines run_hug_audit (hug_protocol.py) writes to the file at
\* ledger_path: H and U, as plain JSON objects.
RECURSIVE StepLines(_, _)
StepLines(results, i) ==
    IF i > Len(results)
    THEN <<>>
    ELSE << JsonDumps([ type |-> "HUG_STEP_" \o results[i].step,
                        timestamp |-> results[i].timestamp,
                        result |-> HugToDict(results[i]) ]) >>
         \o StepLines(results, i + 1)

\* The G step of run_hug_audit (hug_protocol.py): when no ledger_path was
\* given, when the IOError of the write was caught, when the file was written.
StandaloneStepG(results, ledger_path, error, ts) ==
    HUGResult("G", TRUE,
        IF ledger_path = "None"
        THEN [ audit_complete |-> TRUE, results_count |-> Len(results),
               all_passed |-> IsAuditPassed(results) ]
        ELSE IF error
        THEN [ audit_complete |-> TRUE, results_count |-> Len(results),
               all_passed |-> IsAuditPassed(results),
               ledger_error |-> "IOError" ]
        ELSE [ audit_complete |-> TRUE, results_count |-> Len(results),
               all_passed |-> IsAuditPassed(results),
               ledger_path |-> ledger_path, ledger_written |-> TRUE ], ts)

\* main() of hug_protocol.py: run_hug_audit(changed_files, commit_msg,
\* ledger_path) and sys.exit(0 if all(r.passed for r in results) else 1).
\* ledger_path is "None" (no --ledger option), the file the daemon of
\* run_invariant_tests keeps its ledger in, or a file of its own; fault tells
\* that opening it for the step results raises IOError.
StandaloneAudit(changed_files, commit_msg, ledger_path, ctx, fault) ==
    /\ daemon_pc.at = "created"
    /\ hug_ret = NoReturn
    /\ fault => (ledger_path # "None" /\ io_faults < MaxIOFaults)
    /\ \E h \in {StandaloneStepH(changed_files, commit_msg, now)} :
       \E v \in {ValidateOnceRun(Ledger, config, ctx, now)} :
       LET t == RunInvariantTests(v)
           u == HUGResult("U", t.passed, t.evidence, now)
           g == StandaloneStepG(<<h, u>>, ledger_path, fault, now)
           results == <<h, u, g>>
           status == IF v.exited \/ ~IsAuditPassed(results) THEN 1 ELSE 0
           written == ~(v.exited \/ fault)
           lines == IF written /\ ledger_path = LedgerPath
                    THEN v.ledger.lines \o StepLines(<<h, u>>, 1)
                    ELSE v.ledger.lines
       IN  /\ v.exited => ~fault
           /\ AfterValidateOnce(v, ctx, status)
           /\ ledger_exists' = v.ledger.exists
           /\ ledger_lines' = lines
           /\ last_hash' = v.ledger.last_hash
           /\ audit_file' = IF written /\ ledger_path = AuditPath
                            THEN audit_file \o StepLines(<<h, u>>, 1)
                            ELSE audit_file
           /\ io_faults' = IF fault THEN io_faults + 1 ELSE io_faults
           /\ hug_ret' =
                  [ kind |-> "hug_protocol",
                    changed_files |-> changed_files, commit_msg |-> commit_msg,
                    ledger_path |-> ledger_path,
                    invariant_results |-> v.results,
                    halted |-> v.exited,
                    raised |-> FALSE,
                    ledger_error |-> fault,
                    results |-> IF v.exited THEN <<>> ELSE results,
                    exit_status |-> status ]
    /\ UNCHANGED <<running, pending, signals>>
    /\ UNCHANGED <<now, ledger_ret, tampered_at, opened_on>>
    /\ UNCHANGED <<matrixVars, invariants, phase, val_ret, config>>

(***************************************************************************)
(* Specification of the H.U.G audit: one audit per process, on the ledger  *)
(* file an earlier run left.                                               *)
(***************************************************************************)
InitHugSpec ==
    /\ InitMatrix
    /\ \E lines \in PriorLedgers : InitLedgerOn(lines # <<>>, lines)
    /\ \E registry \in DaemonRegistries : InitDaemonRegistry(registry)
    /\ \E cfg \in Configs : InitDaemon(cfg)

NextHug ==
    \/ \E changed_files \in ChangeSets, commit_msg \in CommitMessages,
          ctx \in DaemonContexts, fault_at \in 0..3 :
           RunHugAudit(changed_files, commit_msg, ctx, fault_at)
    \/ \E changed_files \in ChangeSets, commit_msg \in CommitMessages,
          ledger_path \in {"None", LedgerPath, AuditPath}, ctx \in DaemonContexts,
          fault \in BOOLEAN :
           StandaloneAudit(changed_files, commit_msg, ledger_path, ctx, fault)

SpecHug == InitHugSpec /\ [][NextHug]_vars

(***************************************************************************)
(* The files under displacement: someone with access to a ledger file      *)
(* removes one of its lines or exchanges two neighbouring lines, and       *)
(* EvidenceLedger.verify_chain is run on the file afterwards.              *)
(***************************************************************************)
\* The lines of a file without line i.
RemoveAt(lines, i) ==
    SubSeq(lines, 1, i - 1) \o SubSeq(lines, i + 1, Len(lines))

\* The lines of a file with lines i and i + 1 exchanged.
SwapAt(lines, i) ==
    [lines EXCEPT ![i] = lines[i + 1], ![i + 1] = lines[i]]

\* The lines of the file at path.
FileAt(path) == IF path = LedgerPath THEN ledger_lines ELSE audit_file

\* The file at path gets the given lines; line i is where it was touched.
\* It happens at most once.
Displace(path, lines, i) ==
    /\ tampered_at = 0
    /\ tampered_at' = i
    /\ ledger_lines' = IF path = LedgerPath THEN lines ELSE ledger_lines
    /\ audit_file' = IF path = AuditPath THEN lines ELSE audit_file
    /\ ledger_ret' = NoReturn
    /\ UNCHANGED <<ledger_exists, last_hash, now, opened_on, hug_ret>>
    /\ UNCHANGED <<matrixVars, registryVars, daemonVars>>

\* Line i, which is not the last one, is removed from the file at path.
RemoveLine(path, i) ==
    /\ i \in 1..(Len(FileAt(path)) - 1)
    /\ Displace(path, RemoveAt(FileAt(path), i), i)

\* Lines i and i + 1 of the file at path are exchanged.
SwapAdjacent(path, i) ==
    /\ i \in 1..(Len(FileAt(path)) - 1)
    /\ Displace(path, SwapAt(FileAt(path), i), i)

\* EvidenceLedger(AuditPath).verify_chain(): a ledger instance is built on
\* the file the audit wrote and its chain is verified.
VerifyAuditFile ==
    /\ ledger_ret' = [kind |-> "verify_chain", path |-> AuditPath]
                        @@ VerifyChain(audit_file # <<>>, audit_file)
    /\ UNCHANGED <<ledger_exists, ledger_lines, last_hash, now, tampered_at, opened_on>>
    /\ UNCHANGED <<matrixVars, registryVars, daemonVars, hugVars>>

MaxFile == 6

\* One audit, which leaves chained entries of its daemon in the file at
\* LedgerPath and its step results in the file --ledger names.
NextDisplace ==
    \/ \E changed_files \in {<<>>, << <<"infra/", "daemon", "/run.py">> >>},
          ledger_path \in {LedgerPath, AuditPath}, ctx \in DaemonContexts :
           StandaloneAudit(changed_files, <<"fix typo">>, ledger_path, ctx, FALSE)
    \/ \E path \in {LedgerPath, AuditPath}, i \in 1..MaxFile : RemoveLine(path, i)
    \/ \E path \in {LedgerPath, AuditPath}, i \in 1..MaxFile : SwapAdjacent(path, i)
    \/ VerifyChainCall
    \/ VerifyAuditFile

SpecDisplace == InitHugSpec /\ [][NextDisplace]_vars

(***************************************************************************)
(*                               CLAIMS                                    *)
(***************************************************************************)
\* What decide, can_proceed or evaluate_operation last returned to a caller.
Returns(kind) == {ret[c] : c \in {d \in Callers : ret[d].kind = kind}}

\* C1: on the sealed matrix built by HaltMatrix(), decide(severity, op_class)
\* returns the entry stored under that pair for each of the 4 x 18 pairs,
\* never the fail-secure fallback, and the entry carries the arguments as its
\* severity and op_class.
C1_DecideTotal ==
    /\ Cardinality(Severity) = 4
    /\ Cardinality(OpClass) = 18
    /\ DOMAIN matrix = Severity \X OpClass
    /\ \A r \in Returns("decide") :
          /\ <<r.severity, r.op_class>> \in DOMAIN matrix
          /\ r.entry = matrix[<<r.severity, r.op_class>>]
          /\ r.entry # FailSecureEntry(r.severity, r.op_class)
          /\ r.entry.severity = r.severity
          /\ r.entry.op_class = r.op_class
          /\ r.entry.behavior \in HaltBehavior

C1_Witness ==
    \E r \in Returns("decide") :
        /\ r.severity = "CRITICAL"
        /\ r.op_class = "CHALLENGE_DISMISS"
        /\ r.entry.behavior = "DENY"

C3_QuorumEntriesNeedQuorum ==
    \A r \in Returns("can_proceed") :
        (matrix[<<r.severity, r.op_class>>].requires_quorum /\ ~r.quorum_satisfied)
            => ~r.can_proceed

\* The pair a query was about is not in the matrix.
Missing(r) == <<r.severity, r.op_class>> \notin DOMAIN matrix

\* C4: for a pair that is absent from the matrix decide returns DENY with
\* requires_quorum, requires_challenge_clear and audit level "maximum", and
\* can_proceed and evaluate_operation answer false and BLOCKED for every
\* combination of quorum_satisfied and challenges_clear.
C4_MissingPairDenied ==
    /\ \A r \in Returns("decide") :
          Missing(r) =>
              /\ r.entry.behavior = "DENY"
              /\ r.entry.requires_quorum
              /\ r.entry.requires_challenge_clear
              /\ r.entry.audit_level = "maximum"
    /\ \A r \in Returns("can_proceed") : Missing(r) => ~r.can_proceed
    /\ \A r \in Returns("evaluate_operation") :
          Missing(r) =>
              /\ r.record.decision = "BLOCKED"
              /\ r.record.behavior = "deny"
              /\ r.record.audit_level = "maximum"

C4_Witness ==
    \E r \in Returns("evaluate_operation") :
        /\ Missing(r)
        /\ r.quorum_satisfied
        /\ r.challenges_clear
        /\ r.record.decision = "BLOCKED"

\* C5: evaluate_operation(CONFIG_DEPLOY, CRITICAL, quorum_satisfied=false,
\* challenges_clear=true) is BLOCKED with a reason that names quorum, the same
\* call with quorum_satisfied=true is PROCEED, and every operation whose
\* CRITICAL entry is HALT gets PROCEED exactly when quorum_satisfied and
\* challenges_clear are both true.
C5_CriticalHaltNeedsBoth ==
    \A r \in Returns("evaluate_operation") :
        /\ ( /\ r.op_class = "CONFIG_DEPLOY"
             /\ r.severity = "CRITICAL"
             /\ r.challenges_clear ) =>
               IF r.quorum_satisfied
               THEN r.record.decision = "PROCEED"
               ELSE /\ r.record.decision = "BLOCKED"
                    /\ "quorum" \in Range(r.record.reason)
        /\ ( /\ r.severity = "CRITICAL"
             /\ matrix[<<"CRITICAL", r.op_class>>].behavior = "HALT" ) =>
               /\ r.record.behavior = "halt"
               /\ r.record.decision \in {"PROCEED", "BLOCKED"}
               /\ r.record.decision = "PROCEED" <=>
                      (r.quorum_satisfied /\ r.challenges_clear)

C5_Witness ==
    \E r \in Returns("evaluate_operation") :
        /\ r.op_class = "CONFIG_DEPLOY"
        /\ r.severity = "CRITICAL"
        /\ ~r.quorum_satisfied
        /\ r.challenges_clear
        /\ r.record.decision = "BLOCKED"

\* The cells C6 names.
NeverProceedCells ==
    { <<"FAULT", "SECURITY_DOWNGRADE">>, <<"CRITICAL", "CHALLENGE_DISMISS">>,
      <<"WARN", "CONFIG_DEPLOY">>, <<"WARN", "DATA_MIGRATE">>,
      <<"WARN", "SYSTEM_UPGRADE">> }

\* C6: SECURITY_DOWNGRADE at FAULT and CHALLENGE_DISMISS at CRITICAL are
\* denied, CONFIG_DEPLOY, DATA_MIGRATE and SYSTEM_UPGRADE at WARN are queued,
\* and no combination of quorum_satisfied and challenges_clear lets any of
\* them proceed.
C6_CellsNeverProceed ==
    /\ \A r \in Returns("can_proceed") :
          <<r.severity, r.op_class>> \in NeverProceedCells => ~r.can_proceed
    /\ \A r \in Returns("evaluate_operation") :
          <<r.severity, r.op_class>> \in NeverProceedCells =>
              /\ r.record.decision = "BLOCKED"
              /\ r.record.behavior =
                     IF r.severity = "WARN" THEN "queue" ELSE "deny"

C6_Witness ==
    \E r \in Returns("can_proceed") :
        /\ r.severity = "WARN"
        /\ r.op_class = "CONFIG_DEPLOY"
        /\ r.quorum_satisfied
        /\ r.challenges_clear
        /\ ~r.can_proceed

\* C7: after construction has sealed the matrix its entries and its seal hash
\* never change: every _add call raises and stores nothing, and decide,
\* can_proceed and evaluate_operation leave the matrix as it is, however the
\* calls of two callers interleave.
C7_SealedMatrixFrozen ==
    /\ sealed
    /\ matrix = BuildMatrix
    /\ seal_hash = SealHash(BuildMatrix)
    /\ \A r \in Returns("add") : r.raised

C7_Witness ==
    /\ ret["api"].kind = "add"
    /\ ret["api"].raised
    /\ pc["daemon"] = "evaluate"

\* The entry persisted as line i of the ledger file.
LedgerEntry(i) == JsonLoads(ledger_lines[i]).value

\* C8: after any sequence of append, append_event and append_batch calls by
\* one caller at a time, each persisted entry's previous_hash is the
\* entry_hash of the entry before it, and verify_chain reports the ledger
\* valid.
C8_ChainLinked ==
    /\ \A i \in 2..Len(ledger_lines) :
          LedgerEntry(i).previous_hash = LedgerEntry(i - 1).entry_hash
    /\ VerifyChain(ledger_exists, ledger_lines).valid
    /\ ledger_ret.kind = "verify_chain" => ledger_ret.valid

C8_Witness ==
    /\ Len(ledger_lines) >= 3
    /\ \E i \in DOMAIN ledger_lines : LedgerEntry(i).type = "INVARIANT_RESULT"
    /\ \E i \in DOMAIN ledger_lines : LedgerEntry(i).type = "HUG_STEP_U"
    /\ ledger_ret.kind = "verify_chain"
    /\ ledger_ret.valid

\* C9: once the payload of a persisted entry has been changed without
\* recomputing its entry_hash, verify_chain reports the ledger invalid, with
\* the break at that entry or a later one.
C9_TamperDetected ==
    (tampered_at # 0 /\ ledger_ret.kind = "verify_chain") =>
        /\ ~ledger_ret.valid
        /\ ledger_ret.line_num >= tampered_at

\* What validate_all is to return at position i: the invariant's own result,
\* SKIP when it is disabled, ERROR with severity CRITICAL and the exception's
\* type and message when its validator raises.
ExpectedResult(inv, ctx, ts) ==
    IF ~inv.enabled
    THEN SkipResult(inv, ts)
    ELSE LET out == RunValidator(inv.validator, ctx, ts) IN
         IF out.raised
         THEN InvariantResult(inv.id, inv.name, "ERROR", "CRITICAL",
                  "Validator error: " \o out.exception, ts,
                  [ exception |-> out.exception,
                    exception_type |-> out.exception_type ])
         ELSE out.result

\* C10: validate_all returns exactly one result per registered invariant,
\* also when validators raise: a raising validator gives an ERROR result of
\* severity CRITICAL that carries the exception's type and message, and every
\* other position holds what that invariant yields on its own.
C10_OneResultPerInvariant ==
    val_ret.kind = "validate_all" =>
        /\ ~val_ret.raised
        /\ Len(val_ret.results) = Len(val_ret.registry)
        /\ \A i \in DOMAIN val_ret.registry :
              val_ret.results[i] =
                  ExpectedResult(val_ret.registry[i], val_ret.context, val_ret.at)

C10_Witness ==
    /\ val_ret.kind = "validate_all"
    /\ Len(val_ret.results) = 3
    /\ Cardinality({i \in 1..3 : val_ret.results[i].status = "ERROR"}) = 1
    /\ \E i \in 1..3 :
          /\ val_ret.results[i].status = "ERROR"
          /\ val_ret.results[i].severity = "CRITICAL"
          /\ val_ret.results[i].evidence.exception_type = "ValueError"
    /\ \E i \in 1..3 : val_ret.results[i].status = "PASS"
    /\ \E i \in 1..3 : val_ret.results[i].status = "SKIP"

(***************************************************************************)
(* The orchestrator's escalation.                                          *)
(***************************************************************************)
\* The results of the k-th validation cycle, as the registry's history
\* holds them.
CycleResults(k) ==
    SubSeq(results_history, (k - 1) * Len(invariants) + 1, k * Len(invariants))

CycleFailing(k) ==
    \E i \in DOMAIN CycleResults(k) : CycleResults(k)[i].status \in {"FAIL", "ERROR"}

CycleCritical(k) ==
    \E i \in DOMAIN CycleResults(k) :
        /\ CycleResults(k)[i].status \in {"FAIL", "ERROR"}
        /\ CycleResults(k)[i].severity = "CRITICAL"

\* Cycle k calls for an emergency halt: it has a critical failure and
\* halt_on_critical is set, or it is the last of max_failures_before_halt
\* failing cycles in a row.
HaltDue(k) ==
    \/ config.halt_on_critical /\ CycleCritical(k)
    \/ /\ k >= config.max_failures_before_halt
       /\ \A j \in (k - config.max_failures_before_halt + 1)..k : CycleFailing(j)

\* The main thread is inside _emergency_halt or past it.
Halted ==
    \/ daemon_pc.at \in {"halt", "halt_stop"}
    \/ daemon_pc.exc = "SystemExit"

\* The main thread has left the escalation checks of the current cycle
\* without halting.
PastEscalation ==
    \/ daemon_pc.at \in {"batch", "sleep"}
    \/ daemon_pc.at = "loop" /\ validation_count > 0

\* The type of each ledger entry, in file order.
EntryTypes == [i \in DOMAIN ledger_lines |-> LedgerEntry(i).type]

\* C11: the orchestrator halts in the first cycle that has a critical failure
\* (with halt_on_critical set) or is the N-th failing cycle in a row, and in
\* no other; once it has halted no further cycle runs; and while no cycle
\* calls for a halt the daemon stays running and the loop goes on.
C11_HaltOnEscalation ==
    /\ [](Halted =>
            /\ HaltDue(validation_count)
            /\ \A j \in 1..(validation_count - 1) : ~HaltDue(j))
    /\ [](PastEscalation =>
            /\ \A j \in 1..validation_count : ~HaltDue(j)
            /\ running)
    /\ [][Halted => /\ Halted'
                    /\ validation_count' = validation_count
                    /\ results_history' = results_history]_vars

\* The third cycle halts the daemon as the second failing cycle in a row,
\* after a first cycle without failure, with no critical failure involved.
C11_Witness ==
    /\ daemon_pc.at = "exited"
    /\ daemon_pc.i = 1
    /\ validation_count = 3
    /\ config.max_failures_before_halt = 2
    /\ ~CycleFailing(1)
    /\ CycleFailing(2) /\ ~CycleCritical(2)
    /\ CycleFailing(3) /\ ~CycleCritical(3)
    /\ \E i \in DOMAIN ledger_lines : EntryTypes[i] = "EMERGENCY_HALT"

Quiescent == \A t \in Threads : ~pending[t].built

\* C13: under any interleaving of two callers of append and append_event, no
\* two entries of the ledger carry the same previous_hash, and verify_chain
\* finds the ledger valid whenever it is called.
C13_AppendsSerialized ==
    /\ \A i, j \in DOMAIN ledger_lines :
          i < j => LedgerEntry(i).previous_hash # LedgerEntry(j).previous_hash
    /\ ledger_ret.kind = "verify_chain" => ledger_ret.valid

\* Entry i is the DAEMON_STOP event of a stop() that ran after the first
\* validation cycle had begun.
StopInCycle(i) ==
    /\ EntryTypes[i] = "DAEMON_STOP"
    /\ LedgerEntry(i).payload.validation_count >= 1

\* C14: when a stop signal arrives during a validation cycle, DAEMON_STOP is
\* the last entry of the ledger (the cycle's appends come before it and none
\* comes after it), the chain stays linked, and no new cycle starts once
\* running is false.
C14_StopAfterCycle ==
    /\ [](\A i \in DOMAIN ledger_lines :
             StopInCycle(i) => i = Len(ledger_lines))
    /\ []((Quiescent /\ \E i \in DOMAIN ledger_lines : StopInCycle(i))
             => VerifyChain(ledger_exists, ledger_lines).valid)
    /\ [][~running /\ daemon_pc.at # "created"
             => validation_count' = validation_count]_vars

(***************************************************************************)
(* The loud-failure handler and what a cycle leaves in the ledger.         *)
(***************************************************************************)
\* Every result validate_all has produced so far, over all cycles.
Produced == results_history

ProducedFailures == SelectSeq(Produced, LAMBDA r : r.status \in {"FAIL", "ERROR"})

\* The failures of the current cycle that handle_failure has not been
\* called for yet.
Unhandled ==
    IF daemon_pc.at = "handle"
    THEN IF pending["daemon"].built
         THEN Len(cycle.failures) - daemon_pc.i
         ELSE Len(cycle.failures) - daemon_pc.i + 1
    ELSE 0

\* The failures handle_failure has returned for.
Handled ==
    SubSeq(ProducedFailures, 1,
           Len(ProducedFailures)
             - (IF daemon_pc.at = "handle"
                THEN Len(cycle.failures) - daemon_pc.i + 1 ELSE 0))

\* The ledger holds an INVARIANT_RESULT entry for the result.
Recorded(r) ==
    \E i \in DOMAIN ledger_lines :
        /\ EntryTypes[i] = "INVARIANT_RESULT"
        /\ LedgerEntry(i).result = ResultToDict(r)

\* C15: handle_failure runs once for each FAIL or ERROR result: total_failures
\* counts the failures handled, critical_failures those of severity CRITICAL
\* among them, critical_failures never exceeds total_failures, and every
\* failure handled has its entry in the ledger.
C15_FailuresHandledOnce ==
    /\ failure_count = Len(ProducedFailures) - Unhandled
    /\ critical_failure_count =
          Cardinality({i \in 1..failure_count :
                          ProducedFailures[i].severity = "CRITICAL"})
    /\ critical_failure_count <= failure_count
    /\ \A i \in DOMAIN Handled : Recorded(Handled[i])
    /\ GetStats = [ total_failures |-> failure_count,
                    critical_failures |-> critical_failure_count ]

\* Two cycles have handled a high-severity FAIL, a critical FAIL and a
\* critical ERROR between them.
C15_Witness ==
    /\ daemon_pc.at \in {"sleep", "escalate"}
    /\ validation_count >= 2
    /\ failure_count >= 2
    /\ critical_failure_count >= 1
    /\ critical_failure_count < failure_count
    /\ \E i \in DOMAIN ProducedFailures : ProducedFailures[i].status = "ERROR"
    /\ \E i \in DOMAIN ProducedFailures : ProducedFailures[i].status = "FAIL"

\* The main thread is between two cycles or has left start().
CycleOver ==
    daemon_pc.at \in {"sleep", "loop", "returned", "exited", "raised"}

\* C16: once a validation cycle is over, every result it produced, PASS and
\* SKIP results included, has an INVARIANT_RESULT entry in the ledger, also
\* when the cycle ended in an emergency halt.
C16_EveryResultRecorded ==
    CycleOver => \A i \in DOMAIN Produced : Recorded(Produced[i])

\* The INVARIANT_RESULT payloads the ledger holds with the given timestamp,
\* in file order.
RECURSIVE ResultsOfCycle(_, _)
ResultsOfCycle(i, ts) ==
    IF i > Len(ledger_lines)
    THEN <<>>
    ELSE IF EntryTypes[i] = "INVARIANT_RESULT" /\ LedgerEntry(i).result.timestamp = ts
    THEN <<LedgerEntry(i).result>> \o ResultsOfCycle(i + 1, ts)
    ELSE ResultsOfCycle(i + 1, ts)

\* C17: when a cycle has finished its appends, the INVARIANT_RESULT entries
\* it wrote are the results validate_all returned, one entry for each
\* registered invariant, in registration order.
C17_CycleEntriesInOrder ==
    daemon_pc.at = "sleep" =>
        ResultsOfCycle(1, now) =
            [i \in DOMAIN cycle.results |-> ResultToDict(cycle.results[i])]

(***************************************************************************)
(* The seed of the chain, restarts and failing writes.                     *)
(***************************************************************************)
\* The sentinel the first entry of a chain is to carry as previous_hash.
Genesis == <<"GENESIS">>

\* C18: a ledger instance opened on an empty or missing file has last_hash
\* seeded with GENESIS, and the first entry of the ledger carries GENESIS as
\* its previous_hash.
C18_FirstEntryGenesis ==
    /\ ledger_lines = <<>> => last_hash = Genesis
    /\ ledger_lines # <<>> => LedgerEntry(1).previous_hash = Genesis

\* C19: with restarts of the ledger instance interleaved with appends, the
\* in-memory last_hash is the entry_hash of the last persisted entry, every
\* entry links to the one before it, and verify_chain finds the ledger valid.
C19_RestartKeepsChain ==
    /\ ledger_lines # <<>> =>
          last_hash = LedgerEntry(Len(ledger_lines)).entry_hash
    /\ \A i \in 2..Len(ledger_lines) :
          LedgerEntry(i).previous_hash = LedgerEntry(i - 1).entry_hash
    /\ VerifyChain(ledger_exists, ledger_lines).valid
    /\ ledger_ret.kind = "verify_chain" => ledger_ret.valid
    /\ (opened_on > 0 /\ Len(ledger_lines) > opened_on) =>
          LedgerEntry(opened_on + 1).previous_hash =
              LedgerEntry(opened_on).entry_hash

\* An instance built on a file of two entries has appended a third, and
\* verify_chain has found the ledger valid.
C19_Witness ==
    /\ opened_on = 2
    /\ Len(ledger_lines) = 3
    /\ LedgerEntry(3).previous_hash = LedgerEntry(2).entry_hash
    /\ ledger_ret.kind = "verify_chain"
    /\ ledger_ret.valid

\* C20: when the write of an entry fails inside append or append_event, the
\* ledger file and last_hash stay as they were and the IOError leaves the
\* call: inside a validation cycle it ends the cycle and start(), no further
\* cycle or result entry follows, and the DAEMON_STOP event that stop()
\* appends afterwards links to the last persisted entry.
C20_WriteFailurePropagates ==
    /\ [](io_faults > 0 =>
            /\ daemon_pc.exc = "IOError"
            /\ daemon_pc.at \in {"finally", "raised"})
    /\ [](Quiescent =>
            /\ VerifyChain(ledger_exists, ledger_lines).valid
            /\ ledger_lines # <<>> =>
                  last_hash = LedgerEntry(Len(ledger_lines)).entry_hash)
    /\ [][io_faults' > io_faults =>
            /\ ledger_lines' = ledger_lines
            /\ last_hash' = last_hash]_vars
    /\ [][io_faults > 0 =>
            /\ validation_count' = validation_count
            /\ Len(ledger_lines') > Len(ledger_lines) =>
                  JsonLoads(ledger_lines'[Len(ledger_lines')]).value.type
                      = "DAEMON_STOP"]_vars

\* The append of a cycle's result has failed, start() has ended with the
\* IOError, and the DAEMON_STOP event of the finally clause is linked to the
\* entries persisted before the failure.
C20_Witness ==
    /\ io_faults = 1
    /\ daemon_pc.at = "raised"
    /\ validation_count >= 1
    /\ Len(ledger_lines) >= 3
    /\ EntryTypes[Len(ledger_lines)] = "DAEMON_STOP"
    /\ EntryTypes[Len(ledger_lines) - 1] = "INVARIANT_RESULT"
    /\ VerifyChain(ledger_exists, ledger_lines).valid

(***************************************************************************)
(* The ledger: construction on a damaged file, the hash round trip,        *)
(* verify_chain as a read-only operation, and the frame of the appends.    *)
(***************************************************************************)
\* C21: when a ledger instance is built on a file whose last line cannot be
\* parsed, the constructor raises: it never returns an instance with an
\* unseeded last_hash.
C21_LoadFailurePropagates ==
    ( /\ ledger_ret.kind = "init"
      /\ ledger_exists
      /\ ledger_lines # <<>>
      /\ ~JsonLoads(ledger_lines[Len(ledger_lines)]).ok ) =>
        ledger_ret.raised

\* The entry without one of its fields.
WithoutKey(entry, key) == [k \in DOMAIN entry \ {key} |-> entry[k]]

\* The digest recomputed from line i of the file: parse the line, drop
\* entry_hash, encode the rest with sorted keys, hash.
Recomputed(i) == Sha256(WithoutKey(JsonLoads(ledger_lines[i]).value, "entry_hash"))

\* The entries a call that returned k hashes has written: the last k lines.
Written(k, j) == LedgerEntry(Len(ledger_lines) - k + j)

\* C22: for every entry written by append or append_event, the digest
\* recomputed from the written line without its entry_hash is the stored
\* entry_hash; the hashes a call returns are the entry_hash values it wrote,
\* and the last of them is the new last_hash.
C22_HashRoundTrip ==
    /\ \A i \in DOMAIN ledger_lines : LedgerEntry(i).entry_hash = Recomputed(i)
    /\ ledger_ret.kind \in {"append", "append_event", "append_batch"} =>
          /\ \A j \in DOMAIN ledger_ret.hashes :
                Written(Len(ledger_ret.hashes), j).entry_hash = ledger_ret.hashes[j]
          /\ ledger_ret.hashes # <<>> =>
                last_hash = ledger_ret.hashes[Len(ledger_ret.hashes)]

\* append_batch has returned two hashes for the second and third entry of
\* the file, each computed over a non-null previous_hash.
C22_Witness ==
    /\ ledger_ret.kind = "append_batch"
    /\ Len(ledger_ret.hashes) = 2
    /\ Len(ledger_lines) = 3
    /\ LedgerEntry(2).previous_hash # None
    /\ LedgerEntry(3).entry_hash = Recomputed(3)
    /\ last_hash = ledger_ret.hashes[2]


\* C23: verify_chain is read-only: a call changes neither the entries of the
\* file nor last_hash, its answer is the one a second verification of the
\* same file gives, and a broken chain is reported, never repaired.
C23_VerifyReadOnly ==
    [][ (ledger_ret'.kind = "verify_chain" /\ ledger_ret' # ledger_ret) =>
           /\ ledger_lines' = ledger_lines
           /\ ledger_exists' = ledger_exists
           /\ last_hash' = last_hash
           /\ ledger_ret'.valid = VerifyChain(ledger_exists', ledger_lines').valid
           /\ ledger_ret'.valid = VerifyChain(ledger_exists, ledger_lines).valid ]_vars

\* verify_chain has reported a broken chain and the damaged line is still
\* the last line of the file.
C23_Witness ==
    /\ ledger_ret.kind = "verify_chain"
    /\ ~ledger_ret.valid
    /\ tampered_at > 0
    /\ tampered_at = Len(ledger_lines)
    /\ ledger_lines[tampered_at] = TornLine


\* What the entry of an append call holds of its argument: the result dict
\* of append and append_batch, the payload of append_event.
Carried(entry) ==
    IF entry.type = "INVARIANT_RESULT" THEN entry.result ELSE entry.payload

\* C24: an append or append_event adds exactly one entry at the end of the
\* file and leaves every earlier entry as it was; an append_batch of k
\* results adds exactly k entries, in the order of the input, and returns
\* their k hashes in that order.
C24_AppendFrame ==
    [][ ledger_lines' # ledger_lines =>
          LET k == Len(ledger_ret'.hashes)
              n == Len(ledger_lines)
          IN  /\ ledger_ret'.kind \in {"append", "append_event", "append_batch"}
              /\ k = Len(ledger_ret'.given)
              /\ ledger_ret'.kind # "append_batch" => k = 1
              /\ Len(ledger_lines') = n + k
              /\ SubSeq(ledger_lines', 1, n) = ledger_lines
              /\ \A j \in 1..k :
                    LET entry == JsonLoads(ledger_lines'[n + j]).value IN
                    /\ entry.entry_hash = ledger_ret'.hashes[j]
                    /\ Carried(entry) = ledger_ret'.given[j] ]_vars

\* append_batch has added two different results after an earlier entry, in
\* the order they were given.
C24_Witness ==
    /\ ledger_ret.kind = "append_batch"
    /\ Len(ledger_ret.hashes) = 2
    /\ Len(ledger_lines) = 3
    /\ ledger_ret.given[1] # ledger_ret.given[2]
    /\ LedgerEntry(2).result = ledger_ret.given[1]
    /\ LedgerEntry(3).result = ledger_ret.given[2]
    /\ ledger_ret.hashes = <<LedgerEntry(2).entry_hash, LedgerEntry(3).entry_hash>>


(***************************************************************************)
(* The registry: duplicate registration, the order of validate_all, the    *)
(* failure queries, and disabled invariants.                               *)
(***************************************************************************)
\* C25: registering an invariant whose id is already registered is rejected
\* and leaves the registry unchanged: at startup every registered invariant
\* stays as it was registered, whatever is registered after it.
C25_DuplicateRejected ==
    [][ (phase = "startup" /\ phase' = "startup") =>
            \A i \in DOMAIN invariants :
                /\ i \in DOMAIN invariants'
                /\ invariants'[i] = invariants[i] ]_vars


\* C26: validate_all returns its results in registration order: an invariant
\* registered under a new id goes to the end of the registry, and the i-th
\* result of validate_all belongs to the i-th invariant of the registry.
C26_RegistrationOrder ==
    /\ [](val_ret.kind = "validate_all" =>
            /\ ~val_ret.raised
            /\ Len(val_ret.results) = Len(val_ret.registry)
            /\ \A i \in DOMAIN val_ret.results :
                  val_ret.results[i].invariant_id = val_ret.registry[i].id)
    /\ [][ Len(invariants') > Len(invariants) =>
             /\ Len(invariants') = Len(invariants) + 1
             /\ SubSeq(invariants', 1, Len(invariants)) = invariants
             /\ \A i \in DOMAIN invariants :
                   invariants[i].id # invariants'[Len(invariants')].id ]_vars
    /\ [][ (val_ret'.kind = "validate_all" /\ val_ret' # val_ret) =>
              val_ret'.registry = invariants ]_vars

\* Three invariants were registered, the first passes, the second fails and
\* the validator of the third raises: validate_all returned PASS, FAIL, ERROR.
C26_Witness ==
    /\ val_ret.kind = "validate_all"
    /\ Len(val_ret.results) = 3
    /\ [i \in 1..3 |-> val_ret.registry[i].id] = <<"INV-002", "INV-004", "INV-006">>
    /\ [i \in 1..3 |-> val_ret.results[i].status] = <<"PASS", "FAIL", "ERROR">>


\* The result at place i of a batch is a failure: its status is FAIL or ERROR.
Failing(results, i) == results[i].status \in {"FAIL", "ERROR"}

\* C27: get_failures returns exactly the results with status FAIL or ERROR,
\* in their original order; has_critical_failure is true exactly when one of
\* them has severity CRITICAL; and a batch in which the validator of an
\* enabled invariant raised has a critical failure.
C27_FailureQueries ==
    /\ "failures" \in DOMAIN val_ret =>
          /\ Len(val_ret.failures) =
                Cardinality({i \in DOMAIN val_ret.results : Failing(val_ret.results, i)})
          /\ \A i \in DOMAIN val_ret.results :
                Failing(val_ret.results, i) =>
                    val_ret.failures[Cardinality({k \in 1..i : Failing(val_ret.results, k)})]
                        = val_ret.results[i]
    /\ "critical" \in DOMAIN val_ret =>
          /\ val_ret.critical <=>
                \E i \in DOMAIN val_ret.results :
                    /\ Failing(val_ret.results, i)
                    /\ val_ret.results[i].severity = "CRITICAL"
          /\ (\E i \in DOMAIN val_ret.registry :
                 /\ val_ret.registry[i].enabled
                 /\ RunValidator(val_ret.registry[i].validator,
                                 val_ret.context, val_ret.at).raised)
                => val_ret.critical

\* The batch PASS, FAIL at HIGH, ERROR: get_failures returned the second and
\* third result, and has_critical_failure returned true for the ERROR alone.
C27_Witness ==
    /\ "failures" \in DOMAIN val_ret
    /\ "critical" \in DOMAIN val_ret
    /\ [i \in DOMAIN val_ret.results |-> val_ret.results[i].status]
           = <<"PASS", "FAIL", "ERROR">>
    /\ val_ret.results[2].severity = "HIGH"
    /\ val_ret.failures = <<val_ret.results[2], val_ret.results[3]>>
    /\ val_ret.critical


\* The results of the current cycle are all PASS or SKIP.
NothingFailed ==
    \A i \in DOMAIN cycle.results : cycle.results[i].status \in {"PASS", "SKIP"}

\* C28: a disabled invariant yields SKIP, also on a fact map on which its
\* validator would fail or raise; and a SKIP is no failure: it is not among
\* the failures of the cycle, it is not counted by the failure handler, a
\* cycle of PASS and SKIP results resets consecutive_failures and does not
\* halt.
C28_SkipIsNoFailure ==
    /\ \A i \in DOMAIN cycle.results :
          ~invariants[i].enabled =>
              cycle.results[i] = SkipResult(invariants[i], cycle.results[i].timestamp)
    /\ \A i \in DOMAIN cycle.failures : cycle.failures[i].status # "SKIP"
    /\ failure_count <=
          Cardinality({i \in DOMAIN results_history :
                          results_history[i].status \in {"FAIL", "ERROR"}})
    /\ (validation_count > 0 /\ NothingFailed) =>
          /\ consecutive_failures = 0
          /\ ~Halted
          /\ \A i \in DOMAIN ledger_lines : LedgerEntry(i).type # "EMERGENCY_HALT"

\* A cycle on a fact map whose authority has no valid expiry date, with the
\* authority invariant disabled: its validator would have raised, the result
\* is SKIP, and the cycle went through without a failure.
C28_Witness ==
    /\ daemon_pc.at = "sleep"
    /\ ~invariants[3].enabled
    /\ RunValidator(invariants[3].validator, cycle.context, now).raised
    /\ [i \in DOMAIN cycle.results |-> cycle.results[i].status]
          = <<"PASS", "PASS", "SKIP">>
    /\ cycle.failures = <<>>
    /\ consecutive_failures = 0
    /\ failure_count = 0
    /\ running


(***************************************************************************)
(* The H.U.G audit: the U step and the verdict.                            *)
(***************************************************************************)
\* The step results of the audit that has run, by step.
StepResult(step) ==
    CHOOSE r \in Range(hug_ret.results) : r.step = step

\* C29: the U step of HUGProtocol.run_audit passes exactly when the batch of
\* invariant results holds no FAIL and no ERROR; a SKIP does not fail it.
C29_UStepToleratesSkip ==
    (hug_ret.kind = "run_hug_audit" /\ hug_ret.results # <<>>) =>
        ( StepResult("U").passed <=>
            \A i \in DOMAIN hug_ret.invariant_results :
                hug_ret.invariant_results[i].status \notin {"FAIL", "ERROR"} )


\* C30: the verdict of an audit is the conjunction of its H, U and G steps,
\* and the process exits with status 0 exactly when it is true (a process
\* that the emergency halt or an uncaught IOError ended without a verdict
\* exits with status 1); so
\* an audit whose U step fails exits with status 1 whatever H says.
C30_VerdictIsConjunction ==
    hug_ret.kind # "none" =>
        /\ hug_ret.exit_status \in {0, 1}
        /\ (hug_ret.halted \/ hug_ret.raised) =>
              hug_ret.results = <<>> /\ hug_ret.exit_status = 1
        /\ ~(hug_ret.halted \/ hug_ret.raised) =>
              /\ [i \in DOMAIN hug_ret.results |-> hug_ret.results[i].step]
                     = <<"H", "U", "G">>
              /\ hug_ret.exit_status = 0 <=>
                     /\ StepResult("H").passed
                     /\ StepResult("U").passed
                     /\ StepResult("G").passed
              /\ ~StepResult("U").passed => hug_ret.exit_status = 1

\* A change to a sensitive file that carries an approval marker, audited
\* while an invariant fails: H passes, U fails, and the process exits with
\* status 1.
C30_Witness ==
    /\ hug_ret.kind = "run_hug_audit"
    /\ ~hug_ret.halted
    /\ StepResult("H").evidence.needs_human_review
    /\ StepResult("H").passed
    /\ \E i \in DOMAIN hug_ret.invariant_results :
          hug_ret.invariant_results[i].status = "FAIL"
    /\ ~StepResult("U").passed
    /\ StepResult("G").passed
    /\ hug_ret.exit_status = 1


(***************************************************************************)
(* The H.U.G audit: the H step, the ledger during the G step, the order of *)
(* the steps.                                                              *)
(***************************************************************************)
\* The explicit approval markers: [human-approved], [approved],
\* approved-by:, acked-by:.
ApprovalMarkers ==
    { <<"[", "human-", "approved", "]">>, <<"[", "approved", "]">>,
      <<"approved", "-by:">>, <<"acked", "-by:">> }

\* The change description carries an approval marker, in any case.
CarriesMarker(commit_msg) ==
    \E marker \in ApprovalMarkers : Contains(marker, Lower(commit_msg))

\* A changed file matches the sensitive keywords of the implementation that
\* ran the audit.
TouchesSensitive ==
    \E i \in DOMAIN hug_ret.changed_files :
        \E keyword \in (IF hug_ret.kind = "run_hug_audit"
                        THEN SensitiveKeywords
                        ELSE Range(CRITICAL_PATTERNS)) :
            Contains(keyword, Lower(hug_ret.changed_files[i]))

\* C31: the H step passes exactly when no changed file contains a sensitive
\* keyword or the change description carries an approval marker; a change to
\* a sensitive file without a marker fails H and the audit.
C31_HumanGate ==
    (hug_ret.kind # "none" /\ hug_ret.results # <<>>) =>
        /\ StepResult("H").passed <=>
               (~TouchesSensitive \/ CarriesMarker(hug_ret.commit_msg))
        /\ (TouchesSensitive /\ ~CarriesMarker(hug_ret.commit_msg)) =>
               hug_ret.exit_status = 1


\* C32: when the write of the step results to the ledger fails during the G
\* step, the G step does not pass and the audit fails: the process does not
\* exit with status 0, and a G result that is returned is not a pass.
C32_LedgerFailureFailsAudit ==
    (hug_ret.kind # "none" /\ hug_ret.ledger_error) =>
        /\ hug_ret.exit_status = 1
        /\ hug_ret.results # <<>> => ~StepResult("G").passed


\* The types of the last n lines of the ledger file.
LastTypes(n) ==
    [i \in 1..n |-> EntryGet(LedgerEntry(Len(ledger_lines) - n + i), "type")]

\* C33: every run of GovernanceDaemon.run_hug_audit in which no write fails
\* returns the three step results H, U, G in that order and leaves the
\* events HUG_STEP_H, HUG_STEP_U, HUG_STEP_G as the last three entries of the
\* ledger, whatever the invariant results are.
C33_ThreeStepsLogged ==
    (hug_ret.kind = "run_hug_audit" /\ ~hug_ret.ledger_error) =>
        /\ [i \in DOMAIN hug_ret.results |-> hug_ret.results[i].step]
               = <<"H", "U", "G">>
        /\ Len(ledger_lines) >= 3
        /\ LastTypes(3) = <<"HUG_STEP_H", "HUG_STEP_U", "HUG_STEP_G">>


(***************************************************************************)
(* validate_subset.                                                        *)
(***************************************************************************)
\* The invariant the registry of the call holds under the id, if any.
Registered(id) == {inv \in Range(val_ret.registry) : inv.id = id}

\* How many of the first k ids of the list are registered.
KnownUpTo(k) ==
    Cardinality({j \in 1..k : Registered(val_ret.invariant_ids[j]) # {}})

\* C34: validate_subset returns one result per listed id that is registered,
\* in the order of the list, and nothing else: an invariant that is not
\* listed gets no result, and a listed id that is not registered gives no
\* result and no error.
C34_SubsetByList ==
    val_ret.kind = "validate_subset" =>
        /\ ~val_ret.raised
        /\ Len(val_ret.results) = KnownUpTo(Len(val_ret.invariant_ids))
        /\ \A j \in DOMAIN val_ret.invariant_ids :
              \A inv \in Registered(val_ret.invariant_ids[j]) :
                  val_ret.results[KnownUpTo(j)] =
                      ExpectedResult(inv, val_ret.context, val_ret.at)
        /\ \A i \in DOMAIN val_ret.results :
              val_ret.results[i].invariant_id \in Range(val_ret.invariant_ids)

\* Three invariants are registered; the list names the third, an unknown id
\* and the first: the results are those of the third and the first.
C34_Witness ==
    /\ val_ret.kind = "validate_subset"
    /\ Len(val_ret.registry) = 3
    /\ val_ret.invariant_ids = <<"INV-006", "INV-999", "INV-002">>
    /\ [i \in DOMAIN val_ret.registry |-> val_ret.registry[i].id]
           = <<"INV-002", "INV-004", "INV-006">>
    /\ [i \in DOMAIN val_ret.results |-> val_ret.results[i].invariant_id]
           = <<"INV-006", "INV-002">>

\* Position of a severity in INFO < WARN < FAULT < CRITICAL.
SeverityRank(sev) == CHOOSE i \in DOMAIN SeverityOrder : SeverityOrder[i] = sev

QuorumOnlyOps == {"INVARIANT_SUSPEND", "SECURITY_DOWNGRADE"}

\* C37: at every severity INVARIANT_SUSPEND and SECURITY_DOWNGRADE proceed
\* only if quorum_satisfied and challenges_clear are both true, in the matrix
\* as built and in every answer can_proceed and evaluate_operation gave.
C37_QuorumOnlyOps ==
    /\ \A sev \in Severity, op \in QuorumOnlyOps, q \in BOOLEAN, c \in BOOLEAN :
          CanProceed(matrix, sev, op, q, c)[1] => (q /\ c)
    /\ \A r \in Returns("can_proceed") :
          (r.op_class \in QuorumOnlyOps /\ r.can_proceed) =>
              (r.quorum_satisfied /\ r.challenges_clear)
    /\ \A r \in Returns("evaluate_operation") :
          (r.op_class \in QuorumOnlyOps /\ r.record.decision = "PROCEED") =>
              (r.quorum_satisfied /\ r.challenges_clear)

C37_Witness ==
    \E r \in Returns("can_proceed") :
        /\ r.op_class = "INVARIANT_SUSPEND"
        /\ r.severity = "INFO"
        /\ r.quorum_satisfied
        /\ ~r.challenges_clear
        /\ ~r.can_proceed

\* C40: for every severity and operation class, if can_proceed is true for
\* some pair (quorum_satisfied, challenges_clear) it is true for (true, true).
C40_BothFlagsNeverHurt ==
    /\ \A sev \in Severity, op \in OpClass, q \in BOOLEAN, c \in BOOLEAN :
          CanProceed(matrix, sev, op, q, c)[1] =>
              CanProceed(matrix, sev, op, TRUE, TRUE)[1]
    /\ \A r \in Returns("can_proceed") :
          r.can_proceed =>
              CanProceed(matrix, r.severity, r.op_class, TRUE, TRUE)[1]

C40_Witness ==
    \E r \in Returns("can_proceed") :
        /\ r.severity = "FAULT"
        /\ r.op_class = "CONFIG_DEPLOY"
        /\ ~r.quorum_satisfied
        /\ r.challenges_clear
        /\ r.can_proceed
        /\ CanProceed(matrix, "FAULT", "CONFIG_DEPLOY", TRUE, TRUE)[1]

\* C36: the step events the standalone run_hug_audit writes to the file at
\* ledger_path are chained ledger entries carrying previous_hash and
\* entry_hash, so a non-empty ledger that verify_chain reports valid before
\* the audit is still reported valid after it.
C36_StepEventsChained ==
    [][ ( /\ hug_ret = NoReturn
          /\ hug_ret' # NoReturn
          /\ hug_ret'.kind = "hug_protocol"
          /\ hug_ret'.ledger_path = LedgerPath
          /\ ~hug_ret'.halted
          /\ ~hug_ret'.ledger_error
          /\ ledger_lines # <<>>
          /\ VerifyChain(ledger_exists, ledger_lines).valid )
        => /\ VerifyChain(ledger_exists', ledger_lines').valid
           /\ \A i \in (Len(ledger_lines') - 1)..Len(ledger_lines') :
                 /\ EntryGet(JsonLoads(ledger_lines'[i]).value, "entry_hash") # None
                 /\ EntryGet(JsonLoads(ledger_lines'[i]).value, "previous_hash") # None
      ]_vars

\* verify_chain's answer on the lines of a file.
ChainOf(lines) == VerifyChain(lines # <<>>, lines)

\* C38: removing any entry other than the last one from a valid ledger of at
\* least two entries, or swapping two adjacent entries, makes verify_chain
\* report the ledger invalid, with the break at the first displaced entry.
C38_DisplacementDetected ==
    [][ \A path \in {LedgerPath, AuditPath} :
          LET before == IF path = LedgerPath THEN ledger_lines ELSE audit_file
              after  == IF path = LedgerPath THEN ledger_lines' ELSE audit_file'
          IN  ( /\ tampered_at = 0
                /\ tampered_at' # 0
                /\ after # before
                /\ Len(before) >= 2
                /\ ChainOf(before).valid )
              => ChainOf(after) = [valid |-> FALSE, line_num |-> tampered_at']
      ]_vars

\* The same for a file whose entries all carry the entry_hash that
\* EvidenceLedger.append and append_event give them.
ChainedDisplacementDetected ==
    [][ \A path \in {LedgerPath, AuditPath} :
          LET before == IF path = LedgerPath THEN ledger_lines ELSE audit_file
              after  == IF path = LedgerPath THEN ledger_lines' ELSE audit_file'
          IN  ( /\ tampered_at = 0
                /\ tampered_at' # 0
                /\ after # before
                /\ Len(before) >= 2
                /\ ChainOf(before).valid
                /\ \A i \in DOMAIN before :
                      EntryGet(JsonLoads(before[i]).value, "entry_hash") # None )
              => ChainOf(after) = [valid |-> FALSE, line_num |-> tampered_at']
      ]_vars

\* The DAEMON_STOP events in the ledger of the run.
StopEvents == {i \in DOMAIN ledger_lines : EntryTypes[i] = "DAEMON_STOP"}

\* C39: stop() is idempotent: however many times it is invoked in one run
\* (signal handler, emergency halt, the finally clause of start), the ledger
\* never holds more than one DAEMON_STOP event of the run, and once start()
\* has ended it holds exactly one and running is false.
C39_StopIdempotent ==
    /\ Cardinality(StopEvents) <= 1
    /\ daemon_pc.at \in {"returned", "exited", "raised"} =>
          /\ ~running
          /\ Cardinality(StopEvents) = 1
=============================================================================
